---- MODULE Spec2Model ----
(***************************************************************************)
(* Agentic RAG: the unified agent (AgenticRAGAgent) with its two           *)
(* execution strategies, the staged LangGraph workflow                     *)
(* (agent -> retrieve -> grade_documents -> generate) and the tool-calling *)
(* React loop, together with the service layer both of them call.          *)
(*                                                                         *)
(* Texts that the code inspects or transforms (completions, rejection      *)
(* reasons, document contents, queries) are sequences of one-character     *)
(* strings, so that trim/toUpperCase/toLowerCase/includes/substring are    *)
(* computed character by character.  Identifiers that the code only ever   *)
(* compares as wholes (step names, node names, roles) are TLA+ strings.    *)
(* JavaScript values of a field that holds more than one type (null or     *)
(* boolean, number or string, ...) carry their type in a tag t.            *)
(***************************************************************************)
EXTENDS Integers, Sequences, FiniteSets, TLC

(***************************************************************************)
(* Bounds of the model                                                     *)
(***************************************************************************)
\* number of documents in the search index
NumDocs == 4
\* largest maxRetries a caller passes in options
MaxRetriesOpt == 1
\* tool calls the React loop's model may issue before it must answer
MaxToolCalls == 1
\* MarketingAgent instances constructed
MaxAgents == 2
\* calls of sendMessage on the chat page
MaxSends == 4
\* health checks the health route answers
MaxHealthChecks == 2
\* calls of the marketing agents' model
MaxInvocations == 2
\* documents in the index behind the router
RouteDocs == 1

(***************************************************************************)
(* Program constants                                                       *)
(***************************************************************************)
\* maxTokens and top of the probes of healthCheck
ProbeMaxTokens == 5
ProbeTop == 1
SearchTop == 5
GradeExcerptLen == 500
SearchDigestLen == 1200
TopDocumentsShown == 3
RecursionLimit == 10

WORKFLOW == "workflow"
REACT == "react"
AGENT_TYPES == {WORKFLOW, REACT}

(***************************************************************************)
(* Text                                                                    *)
(***************************************************************************)
UpperChars ==
    << "A", "B", "C", "D", "E", "F", "G", "H", "I", "J", "K", "L", "M",
       "N", "O", "P", "Q", "R", "S", "T", "U", "V", "W", "X", "Y", "Z" >>
LowerChars ==
    << "a", "b", "c", "d", "e", "f", "g", "h", "i", "j", "k", "l", "m",
       "n", "o", "p", "q", "r", "s", "t", "u", "v", "w", "x", "y", "z" >>
WhitespaceChars == {" ", "\n", "\t", "\r"}

Min(a, b) == IF a < b THEN a ELSE b

\* position of c in seq, 0 when absent
IndexOf(c, seq) ==
    IF \E i \in 1..Len(seq) : seq[i] = c
    THEN CHOOSE i \in 1..Len(seq) : seq[i] = c
    ELSE 0

\* String.prototype.toUpperCase
ToUpperCase(s) ==
    [i \in 1..Len(s) |->
        LET k == IndexOf(s[i], LowerChars) IN IF k = 0 THEN s[i] ELSE UpperChars[k]]

\* String.prototype.toLowerCase
ToLowerCase(s) ==
    [i \in 1..Len(s) |->
        LET k == IndexOf(s[i], UpperChars) IN IF k = 0 THEN s[i] ELSE LowerChars[k]]

\* String.prototype.trim
Trim(s) ==
    LET keep == {i \in 1..Len(s) : s[i] \notin WhitespaceChars} IN
    IF keep = {} THEN << >>
    ELSE LET first == CHOOSE i \in keep : \A j \in keep : i <= j
             last == CHOOSE i \in keep : \A j \in keep : j <= i
         IN  SubSeq(s, first, last)

\* String.prototype.includes
Includes(s, sub) ==
    \E i \in 0..(Len(s) - Len(sub)) : SubSeq(s, i + 1, i + Len(sub)) = sub

\* String.prototype.substring(0, n)
Substring(s, n) == SubSeq(s, 1, Min(n, Len(s)))

RETRIEVE == << "R", "E", "T", "R", "I", "E", "V", "E" >>
YES == << "y", "e", "s" >>
ADOBE == << "A", "d", "o", "b", "e" >>
EmptyText == << >>

\* 'No documents retrieved'
NoDocumentsRetrieved ==
    << "N", "o", " ", "d", "o", "c", "u", "m", "e", "n", "t", "s", " ", "r", "e",
       "t", "r", "i", "e", "v", "e", "d" >>
\* 'Documents not relevant to query'
DocumentsNotRelevant ==
    << "D", "o", "c", "u", "m", "e", "n", "t", "s", " ", "n", "o", "t", " ", "r",
       "e", "l", "e", "v", "a", "n", "t", " ", "t", "o", " ", "q", "u", "e", "r",
       "y" >>
\* 'Error evaluating document relevance'
ErrorEvaluatingRelevance ==
    << "E", "r", "r", "o", "r", " ", "e", "v", "a", "l", "u", "a", "t", "i", "n",
       "g", " ", "d", "o", "c", "u", "m", "e", "n", "t", " ", "r", "e", "l", "e",
       "v", "a", "n", "c", "e" >>
\* 'I apologize, but I encountered an error while generating the response.'
FallbackAnswer ==
    << "I", " ", "a", "p", "o", "l", "o", "g", "i", "z", "e", ",", " ", "b", "u",
       "t", " ", "I", " ", "e", "n", "c", "o", "u", "n", "t", "e", "r", "e", "d",
       " ", "a", "n", " ", "e", "r", "r", "o", "r", " ", "w", "h", "i", "l", "e",
       " ", "g", "e", "n", "e", "r", "a", "t", "i", "n", "g", " ", "t", "h", "e",
       " ", "r", "e", "s", "p", "o", "n", "s", "e", "." >>
\* 'No response generated'
NoResponseGenerated ==
    << "N", "o", " ", "r", "e", "s", "p", "o", "n", "s", "e", " ", "g", "e", "n",
       "e", "r", "a", "t", "e", "d" >>
\* 'Error generating response'
ErrorGeneratingResponse ==
    << "E", "r", "r", "o", "r", " ", "g", "e", "n", "e", "r", "a", "t", "i", "n",
       "g", " ", "r", "e", "s", "p", "o", "n", "s", "e" >>
\* 'Variable'
VariableText == << "V", "a", "r", "i", "a", "b", "l", "e" >>

(***************************************************************************)
(* JavaScript values of fields that hold more than one type                *)
(***************************************************************************)
JsUndefined == [t |-> "undefined"]
JsNull == [t |-> "null"]
JsBool(b) == [t |-> "boolean", v |-> b]
JsNumber(n) == [t |-> "number", v |-> n]
JsString(s) == [t |-> "string", v |-> s]
JsObject(o) == [t |-> "object", v |-> o]

\* ToBoolean of a tagged value
Truthy(x) ==
    CASE x.t = "undefined" -> FALSE
      [] x.t = "null" -> FALSE
      [] x.t = "boolean" -> x.v
      [] x.t = "number" -> x.v # 0
      [] x.t = "string" -> Len(x.v) > 0
      [] OTHER -> TRUE

\* typeof, with null told apart from object
KindOf(x) == x.t

(***************************************************************************)
(* Inputs: queries, caller options, the search index, model completions    *)
(***************************************************************************)
\* 'Explain recursion'
QueryRecursion ==
    << "E", "x", "p", "l", "a", "i", "n", " ", "r", "e", "c", "u", "r", "s", "i",
       "o", "n" >>
\* 'Adobe brand guidelines'
QueryAdobe ==
    << "A", "d", "o", "b", "e", " ", "b", "r", "a", "n", "d", " ", "g", "u", "i",
       "d", "e", "l", "i", "n", "e", "s" >>
Queries == {QueryRecursion, QueryAdobe}

\* options of execute(userQuery, options): {} or {maxRetries: m}
NoOptions == [k \in {} |-> 0]
OptionsSet == {NoOptions} \cup {[maxRetries |-> m] : m \in 0..MaxRetriesOpt}

\* time that passes while one awaited call is pending: the clock counts the
\* awaited calls
Ticks == {1}

DigitChars == << "0", "1", "2", "3", "4", "5", "6", "7", "8", "9" >>
DocId(i) == << "d", DigitChars[(i % 10) + 1] >>
\* 'Adobe red'
MarkerContent == << "A", "d", "o", "b", "e", " ", "r", "e", "d" >>
\* a content longer than the excerpt the grader is shown
LongContent == [k \in 1..(GradeExcerptLen + 1) |-> IF k = 1 THEN "Z" ELSE "x"]

\* the i-th document of the index: with a content, without the field, with
\* a long content, with an empty content
Document(i) ==
    CASE i = 1 -> [id |-> DocId(i), content |-> MarkerContent]
      [] i = 2 -> [id |-> DocId(i)]
      [] i = 3 -> [id |-> DocId(i), content |-> LongContent]
      [] i = 4 -> [id |-> DocId(i), content |-> EmptyText]
      [] OTHER -> [id |-> DocId(i), content |-> << "d", "o", "c" >>]

\* relevance score of the i-th document, in hundredths
Score(i) ==
    CASE i = 1 -> 92
      [] i = 2 -> 35
      [] OTHER -> 80

RECURSIVE Ranked(_)
\* the members of a set of document numbers, in index order
Ranked(S) ==
    IF S = {} THEN << >>
    ELSE LET m == CHOOSE i \in S : \A j \in S : i <= j
         IN  << m >> \o Ranked(S \ {m})

\* what the search index answers to a request for at most `top` results:
\* a failure, or a ranked list of at most `top` distinct documents
SearchResponses(top) ==
    {[ok |-> FALSE]} \cup
    {[ok |-> TRUE,
      results |-> [k \in 1..Cardinality(S) |->
                      [document |-> Document(Ranked(S)[k]), score |-> Score(Ranked(S)[k])]]]
       : S \in {T \in SUBSET (1..NumDocs) : Cardinality(T) <= top}}

\* contents a chat completion may carry
ModelContents ==
    { EmptyText,
      RETRIEVE,
      << "R", "e", "t", "r", "i", "e", "v", "e", "." >>,
      << "G", "E", "N", "E", "R", "A", "T", "E" >>,
      << " ", "Y", "e", "s", "\n" >>,
      << "n", "o" >> }

\* what the chat completions endpoint answers: a failure, a response without
\* choices, or a response whose first choice carries a content
CompletionResponses ==
    {[ok |-> FALSE], [ok |-> TRUE, choices |-> << >>]} \cup
    {[ok |-> TRUE, choices |-> << [message |-> [content |-> c]] >>] : c \in ModelContents}

(***************************************************************************)
(* Service layer (RAGServices)                                             *)
(***************************************************************************)
\* the completion service returning the content of the first choice as it is
GenerateCompletion_PassesEmpty(response) ==
    IF ~response.ok
    THEN [ok |-> FALSE, error |-> "Completion generation failed"]
    ELSE IF Len(response.choices) > 0
         THEN [ok |-> TRUE, value |-> response.choices[1].message.content]
         ELSE [ok |-> TRUE, value |-> << >>]

\* services.generateCompletion: the first choice's content, 'No response
\* generated' when it is missing or empty; any client error is rethrown
GenerateCompletion(response) ==
    IF ~response.ok
    THEN [ok |-> FALSE, error |-> "Completion generation failed"]
    ELSE IF Len(response.choices) > 0 /\ Len(response.choices[1].message.content) > 0
         THEN [ok |-> TRUE, value |-> response.choices[1].message.content]
         ELSE [ok |-> TRUE, value |-> NoResponseGenerated]

\* services.searchDocuments: the results drained into an array with their
\* count; any client error is rethrown
SearchDocuments(response) ==
    IF ~response.ok
    THEN [ok |-> FALSE, error |-> "Document search failed"]
    ELSE [ok |-> TRUE,
          value |-> [results |-> response.results, count |-> Len(response.results)]]

Quote(s) == << "\"" >> \o s \o << "\"" >>

\* JSON.stringify of an index document
JSONStringify(doc) ==
    << "{" >> \o Quote(<< "i", "d" >>) \o << ":" >> \o Quote(doc.id)
    \o (IF "content" \in DOMAIN doc
        THEN << "," >> \o Quote(<< "c", "o", "n", "t", "e", "n", "t" >>) \o << ":" >>
             \o Quote(doc.content)
        ELSE << >>)
    \o << "}" >>

\* result => ({content: result.document.content || JSON.stringify(result.document),
\*             score: result.score, metadata: result.document})
ToRetrievedDoc(result) ==
    [content |-> IF "content" \in DOMAIN result.document /\ Len(result.document.content) > 0
                 THEN result.document.content
                 ELSE JSONStringify(result.document),
     score |-> result.score,
     metadata |-> result.document]

MapRetrievedDocs(results) == [k \in 1..Len(results) |-> ToRetrievedDoc(results[k])]

(***************************************************************************)
(* Workflow state (AgenticRAGState) and its reducers                       *)
(***************************************************************************)
\* channel defaults
AgenticRAGState(defaultSessionId) ==
    [messages |-> << >>,
     sessionId |-> defaultSessionId,
     userQuery |-> EmptyText,
     needsRAG |-> JsNull,
     searchQuery |-> EmptyText,
     retrievedDocs |-> << >>,
     ragAccepted |-> JsNull,
     rejectionReason |-> EmptyText,
     finalAnswer |-> EmptyText,
     executionSteps |-> << >>,
     retryCount |-> 0,
     maxRetries |-> 0]

\* channels whose reducer is (x, y) => x.concat(y); the others keep y
ConcatChannels == {"messages", "executionSteps"}

\* every channel keeps the last value
Reducer_KeepsLast(channel, x, y) == y

Reducer(channel, x, y) == IF channel \in ConcatChannels THEN x \o y ELSE y

\* the state after a node's partial update went through the reducers
ApplyUpdate(s, update) ==
    [channel \in DOMAIN s |->
        IF channel \in DOMAIN update
        THEN Reducer(channel, s[channel], update[channel])
        ELSE s[channel]]

\* initialState of execute
InitialState(sessionId, query, options) ==
    [sessionId |-> sessionId,
     userQuery |-> query,
     messages |-> << >>,
     needsRAG |-> JsNull,
     searchQuery |-> EmptyText,
     retrievedDocs |-> << >>,
     ragAccepted |-> JsNull,
     rejectionReason |-> EmptyText,
     finalAnswer |-> EmptyText,
     executionSteps |-> << >>,
     retryCount |-> 0,
     maxRetries |-> IF "maxRetries" \in DOMAIN options THEN options.maxRetries ELSE -1]

HumanMessage(content) == [type |-> "human", content |-> content]
AIMessage(content) == [type |-> "ai", content |-> content]

(***************************************************************************)
(* Workflow nodes.  A node maps the state, the clock and the outcome of    *)
(* its awaited service call to a partial update of the state.              *)
(***************************************************************************)
\* _addStep
AddStep(step, clock, details) ==
    << [step |-> step, timestamp |-> clock, details |-> details] >>

\* messages and options of a services.generateCompletion call; the
\* temperature is in tenths
CompletionRequest(prompt, temperature, maxTokens) ==
    [messages |-> << [role |-> "user", content |-> prompt] >>,
     options |-> [temperature |-> temperature, maxTokens |-> maxTokens]]

\* the variable parts of analysisPrompt
AnalysisPrompt(s) == [prompt |-> "analysis", userQuery |-> s.userQuery]

\* _agentNode whose catch branch falls back to retrieval
AgentNode_FailureRetrieves(s, clock, completion) ==
    LET executionSteps == AddStep("agent_analysis", clock, [userQuery |-> s.userQuery]) IN
    IF completion.ok
    THEN LET needsRetrieval == Includes(ToUpperCase(Trim(completion.value)), RETRIEVE) IN
         [needsRAG |-> JsBool(needsRetrieval),
          searchQuery |-> IF needsRetrieval THEN s.userQuery ELSE EmptyText,
          executionSteps |-> executionSteps,
          messages |-> << HumanMessage(s.userQuery) >>]
    ELSE [needsRAG |-> JsBool(TRUE),
          searchQuery |-> s.userQuery,
          executionSteps |-> executionSteps,
          messages |-> << HumanMessage(s.userQuery) >>]

\* _agentNode that looks for 'RETRIEVE' in the decision as it was given
AgentNode_CaseSensitive(s, clock, completion) ==
    LET executionSteps == AddStep("agent_analysis", clock, [userQuery |-> s.userQuery]) IN
    IF completion.ok
    THEN LET needsRetrieval == Includes(Trim(completion.value), RETRIEVE) IN
         [needsRAG |-> JsBool(needsRetrieval),
          searchQuery |-> IF needsRetrieval THEN s.userQuery ELSE EmptyText,
          executionSteps |-> executionSteps,
          messages |-> << HumanMessage(s.userQuery) >>]
    ELSE [needsRAG |-> JsBool(FALSE),
          executionSteps |-> executionSteps,
          messages |-> << HumanMessage(s.userQuery) >>]

\* _agentNode that also returns the query in lower case
AgentNode_RewritesQuery(s, clock, completion) ==
    LET executionSteps == AddStep("agent_analysis", clock, [userQuery |-> s.userQuery]) IN
    IF completion.ok
    THEN LET needsRetrieval == Includes(ToUpperCase(Trim(completion.value)), RETRIEVE) IN
         [needsRAG |-> JsBool(needsRetrieval),
          userQuery |-> ToLowerCase(s.userQuery),
          searchQuery |-> IF needsRetrieval THEN s.userQuery ELSE EmptyText,
          executionSteps |-> executionSteps,
          messages |-> << HumanMessage(s.userQuery) >>]
    ELSE [needsRAG |-> JsBool(FALSE),
          userQuery |-> ToLowerCase(s.userQuery),
          executionSteps |-> executionSteps,
          messages |-> << HumanMessage(s.userQuery) >>]

\* _agentNode
AgentNode(s, clock, completion) ==
    LET executionSteps == AddStep("agent_analysis", clock, [userQuery |-> s.userQuery]) IN
    IF completion.ok
    THEN LET needsRetrieval == Includes(ToUpperCase(Trim(completion.value)), RETRIEVE) IN
         [needsRAG |-> JsBool(needsRetrieval),
          searchQuery |-> IF needsRetrieval THEN s.userQuery ELSE EmptyText,
          executionSteps |-> executionSteps,
          messages |-> << HumanMessage(s.userQuery) >>]
    ELSE [needsRAG |-> JsBool(FALSE),
          executionSteps |-> executionSteps,
          messages |-> << HumanMessage(s.userQuery) >>]

\* a search for the query in lower case
SearchRequest_LowerCase(query) ==
    [query |-> ToLowerCase(query), options |-> [top |-> SearchTop, queryType |-> "semantic"]]

\* arguments of the services.searchDocuments call of _retrieveNode
SearchRequest(query) == [query |-> query, options |-> [top |-> SearchTop, queryType |-> "semantic"]]

\* _retrieveNode without its catch: a search error leaves the node
RetrieveNode_NoCatch(s, clock, search) ==
    LET executionSteps == AddStep("retrieval", clock,
                                  [searchQuery |-> s.searchQuery, retryCount |-> s.retryCount]) IN
    IF search.ok
    THEN [retrievedDocs |-> MapRetrievedDocs(search.value.results),
          executionSteps |-> executionSteps]
    ELSE [throw |-> search.error]

\* _retrieveNode whose catch records the failure in its step
RetrieveNode_RecordsFailure(s, clock, search) ==
    IF search.ok
    THEN [retrievedDocs |-> MapRetrievedDocs(search.value.results),
          executionSteps |-> AddStep("retrieval", clock,
                                     [searchQuery |-> s.searchQuery,
                                      retryCount |-> s.retryCount])]
    ELSE [retrievedDocs |-> << >>,
          executionSteps |-> AddStep("retrieval_failed", clock,
                                     [searchQuery |-> s.searchQuery,
                                      retryCount |-> s.retryCount])]

\* _retrieveNode
RetrieveNode(s, clock, search) ==
    LET executionSteps == AddStep("retrieval", clock,
                                  [searchQuery |-> s.searchQuery, retryCount |-> s.retryCount]) IN
    IF search.ok
    THEN [retrievedDocs |-> MapRetrievedDocs(search.value.results),
          executionSteps |-> executionSteps]
    ELSE [retrievedDocs |-> << >>,
          executionSteps |-> executionSteps]

\* the variable parts of gradePrompt
GradePrompt(s) ==
    [prompt |-> "grade",
     userQuery |-> s.userQuery,
     documents |-> [k \in 1..Len(s.retrievedDocs) |->
                      [excerpt |-> Substring(s.retrievedDocs[k].content, GradeExcerptLen),
                       score |-> s.retrievedDocs[k].score]],
     company |-> IF Includes(s.userQuery, ADOBE) THEN "Adobe" ELSE "the mentioned company"]

\* _gradeDocumentsNode that gives an empty retrieval the reason of a graded one
GradeDocumentsNode_GenericReason(s, clock, completion) ==
    LET executionSteps == AddStep("grade_documents", clock,
                                  [docCount |-> Len(s.retrievedDocs)]) IN
    IF Len(s.retrievedDocs) = 0
    THEN [ragAccepted |-> JsBool(FALSE),
          rejectionReason |-> DocumentsNotRelevant,
          executionSteps |-> executionSteps]
    ELSE IF completion.ok
         THEN LET isRelevant == Includes(ToLowerCase(Trim(completion.value)), YES) IN
              [ragAccepted |-> JsBool(isRelevant),
               rejectionReason |-> IF isRelevant THEN EmptyText ELSE DocumentsNotRelevant,
               executionSteps |-> executionSteps]
         ELSE [ragAccepted |-> JsBool(FALSE),
               rejectionReason |-> ErrorEvaluatingRelevance,
               executionSteps |-> executionSteps]

\* _gradeDocumentsNode that accepts an empty retrieval
GradeDocumentsNode_AcceptsEmpty(s, clock, completion) ==
    LET executionSteps == AddStep("grade_documents", clock,
                                  [docCount |-> Len(s.retrievedDocs)]) IN
    IF Len(s.retrievedDocs) = 0
    THEN [ragAccepted |-> JsBool(TRUE),
          rejectionReason |-> EmptyText,
          executionSteps |-> executionSteps]
    ELSE IF completion.ok
         THEN LET isRelevant == Includes(ToLowerCase(Trim(completion.value)), YES) IN
              [ragAccepted |-> JsBool(isRelevant),
               rejectionReason |-> IF isRelevant THEN EmptyText ELSE DocumentsNotRelevant,
               executionSteps |-> executionSteps]
         ELSE [ragAccepted |-> JsBool(FALSE),
               rejectionReason |-> ErrorEvaluatingRelevance,
               executionSteps |-> executionSteps]

\* _gradeDocumentsNode that looks for 'yes' in the grade as it was given
GradeDocumentsNode_CaseSensitive(s, clock, completion) ==
    LET executionSteps == AddStep("grade_documents", clock,
                                  [docCount |-> Len(s.retrievedDocs)]) IN
    IF Len(s.retrievedDocs) = 0
    THEN [ragAccepted |-> JsBool(FALSE),
          rejectionReason |-> NoDocumentsRetrieved,
          executionSteps |-> executionSteps]
    ELSE IF completion.ok
         THEN LET isRelevant == Includes(Trim(completion.value), YES) IN
              [ragAccepted |-> JsBool(isRelevant),
               rejectionReason |-> IF isRelevant THEN EmptyText ELSE DocumentsNotRelevant,
               executionSteps |-> executionSteps]
         ELSE [ragAccepted |-> JsBool(FALSE),
               rejectionReason |-> ErrorEvaluatingRelevance,
               executionSteps |-> executionSteps]

\* the grade_documents node leaving the reason empty when its call fails
GradeDocumentsNode_SilentFailure(s, clock, completion) ==
    LET executionSteps == AddStep("grade_documents", clock,
                                  [docCount |-> Len(s.retrievedDocs)]) IN
    IF Len(s.retrievedDocs) = 0
    THEN [ragAccepted |-> JsBool(FALSE),
          rejectionReason |-> NoDocumentsRetrieved,
          executionSteps |-> executionSteps]
    ELSE IF completion.ok
         THEN LET isRelevant == Includes(ToLowerCase(Trim(completion.value)), YES) IN
              [ragAccepted |-> JsBool(isRelevant),
               rejectionReason |-> IF isRelevant THEN EmptyText ELSE DocumentsNotRelevant,
               executionSteps |-> executionSteps]
         ELSE [ragAccepted |-> JsBool(FALSE),
               rejectionReason |-> EmptyText,
               executionSteps |-> executionSteps]

\* the grade_documents node accepting the documents when its call fails
GradeDocumentsNode_FailsOpen(s, clock, completion) ==
    LET executionSteps == AddStep("grade_documents", clock,
                                  [docCount |-> Len(s.retrievedDocs)]) IN
    IF Len(s.retrievedDocs) = 0
    THEN [ragAccepted |-> JsBool(FALSE),
          rejectionReason |-> NoDocumentsRetrieved,
          executionSteps |-> executionSteps]
    ELSE IF completion.ok
         THEN LET isRelevant == Includes(ToLowerCase(Trim(completion.value)), YES) IN
              [ragAccepted |-> JsBool(isRelevant),
               rejectionReason |-> IF isRelevant THEN EmptyText ELSE DocumentsNotRelevant,
               executionSteps |-> executionSteps]
         ELSE [ragAccepted |-> JsBool(TRUE),
               rejectionReason |-> EmptyText,
               executionSteps |-> executionSteps]

\* _gradeDocumentsNode; the completion is only awaited when there are documents
GradeDocumentsNode(s, clock, completion) ==
    LET executionSteps == AddStep("grade_documents", clock,
                                  [docCount |-> Len(s.retrievedDocs)]) IN
    IF Len(s.retrievedDocs) = 0
    THEN [ragAccepted |-> JsBool(FALSE),
          rejectionReason |-> NoDocumentsRetrieved,
          executionSteps |-> executionSteps]
    ELSE IF completion.ok
         THEN LET isRelevant == Includes(ToLowerCase(Trim(completion.value)), YES) IN
              [ragAccepted |-> JsBool(isRelevant),
               rejectionReason |-> IF isRelevant THEN EmptyText ELSE DocumentsNotRelevant,
               executionSteps |-> executionSteps]
         ELSE [ragAccepted |-> JsBool(FALSE),
               rejectionReason |-> ErrorEvaluatingRelevance,
               executionSteps |-> executionSteps]

\* 'Note: External documents were retrieved but '
RejectionNotePrefix ==
    << "N", "o", "t", "e", ":", " ", "E", "x", "t", "e", "r", "n", "a", "l", " ",
       "d", "o", "c", "u", "m", "e", "n", "t", "s", " ", "w", "e", "r", "e", " ",
       "r", "e", "t", "r", "i", "e", "v", "e", "d", " ", "b", "u", "t", " " >>
\* '. Proceeding with general knowledge.'
RejectionNoteSuffix ==
    << ".", " ", "P", "r", "o", "c", "e", "e", "d", "i", "n", "g", " ", "w", "i",
       "t", "h", " ", "g", "e", "n", "e", "r", "a", "l", " ", "k", "n", "o", "w",
       "l", "e", "d", "g", "e", "." >>

\* generationPrompt chosen by the presence of documents alone
GenerationPrompt_IgnoresGrade(s) ==
    IF Len(s.retrievedDocs) > 0
    THEN [prompt |-> "context",
          question |-> s.userQuery,
          context |-> [k \in 1..Len(s.retrievedDocs) |-> s.retrievedDocs[k].content]]
    ELSE [prompt |-> "general",
          question |-> s.userQuery,
          rejectionNote |-> IF Len(s.rejectionReason) > 0
                            THEN RejectionNotePrefix \o ToLowerCase(s.rejectionReason)
                                 \o RejectionNoteSuffix
                            ELSE EmptyText]

\* the variable parts of generationPrompt: the answer-synthesis prompt with
\* every document's content, or the general-knowledge prompt with its
\* rejection note
GenerationPrompt(s) ==
    IF Truthy(s.ragAccepted) /\ Len(s.retrievedDocs) > 0
    THEN [prompt |-> "context",
          question |-> s.userQuery,
          context |-> [k \in 1..Len(s.retrievedDocs) |-> s.retrievedDocs[k].content]]
    ELSE [prompt |-> "general",
          question |-> s.userQuery,
          rejectionNote |-> IF Len(s.rejectionReason) > 0
                            THEN RejectionNotePrefix \o ToLowerCase(s.rejectionReason)
                                 \o RejectionNoteSuffix
                            ELSE EmptyText]

\* _generateNode whose catch returns no step
GenerateNode_FailureDropsStep(s, clock, completion) ==
    IF completion.ok
    THEN [finalAnswer |-> completion.value,
          executionSteps |-> AddStep("generate", clock,
                                     [ragAccepted |-> s.ragAccepted,
                                      docCount |-> Len(s.retrievedDocs)]),
          messages |-> s.messages \o << AIMessage(completion.value) >>]
    ELSE [finalAnswer |-> FallbackAnswer,
          messages |-> s.messages \o << AIMessage(ErrorGeneratingResponse) >>]

\* _generateNode that also clears the grade
GenerateNode_ClearsGrade(s, clock, completion) ==
    LET executionSteps == AddStep("generate", clock,
                                  [ragAccepted |-> s.ragAccepted,
                                   docCount |-> Len(s.retrievedDocs)]) IN
    IF completion.ok
    THEN [finalAnswer |-> completion.value,
          ragAccepted |-> JsNull,
          executionSteps |-> executionSteps,
          messages |-> s.messages \o << AIMessage(completion.value) >>]
    ELSE [finalAnswer |-> FallbackAnswer,
          ragAccepted |-> JsNull,
          executionSteps |-> executionSteps,
          messages |-> s.messages \o << AIMessage(ErrorGeneratingResponse) >>]

\* _generateNode
GenerateNode(s, clock, completion) ==
    LET executionSteps == AddStep("generate", clock,
                                  [ragAccepted |-> s.ragAccepted,
                                   docCount |-> Len(s.retrievedDocs)]) IN
    IF completion.ok
    THEN [finalAnswer |-> completion.value,
          executionSteps |-> executionSteps,
          messages |-> s.messages \o << AIMessage(completion.value) >>]
    ELSE [finalAnswer |-> FallbackAnswer,
          executionSteps |-> executionSteps,
          messages |-> s.messages \o << AIMessage(ErrorGeneratingResponse) >>]

(***************************************************************************)
(* Workflow graph (_createWorkflowAgent)                                   *)
(***************************************************************************)
START == "__start__"

\* _decideToRetrieve that always retrieves
DecideToRetrieve_Always(s) == "retrieve"

\* _decideToRetrieve that retrieves only when retries are allowed
DecideToRetrieve_IfRetriesAllowed(s) ==
    IF Truthy(s.needsRAG) /\ s.maxRetries # 0 THEN "retrieve" ELSE "generate"

\* _decideToRetrieve
DecideToRetrieve(s) == IF Truthy(s.needsRAG) THEN "retrieve" ELSE "generate"

\* _gradeDocuments
GradeDocuments(s) ==
    IF Len(s.retrievedDocs) = 0 THEN "no_docs"
    ELSE IF Truthy(s.ragAccepted) THEN "relevant"
    ELSE "no_docs"

\* path map of the conditional edge of agent
AgentPathMap == [retrieve |-> "retrieve", generate |-> "generate"]
\* path map that sends a rejected retrieval back to retrieve
GradePathMap_RetryLoop == [relevant |-> "generate", not_relevant |-> "retrieve", no_docs |-> "retrieve"]

\* path map of the conditional edge of grade_documents
GradePathMap == [relevant |-> "generate", not_relevant |-> "generate", no_docs |-> "generate"]

\* edges where generate leads back to agent
Successors_GenerateLoops(n, s) ==
    CASE n = START -> {"agent"}
      [] n = "agent" -> {AgentPathMap[DecideToRetrieve(s)]}
      [] n = "retrieve" -> {"grade_documents"}
      [] n = "grade_documents" -> {GradePathMap[GradeDocuments(s)]}
      [] n = "generate" -> {"agent"}

\* edges where a retrieval that was not accepted is tried again while
\* retryCount is below maxRetries
Successors_RetriesRetrieval(n, s) ==
    CASE n = START -> {"agent"}
      [] n = "agent" -> {AgentPathMap[DecideToRetrieve(s)]}
      [] n = "retrieve" -> {"grade_documents"}
      [] n = "grade_documents" ->
            IF GradeDocuments(s) # "relevant" /\ s.retryCount < s.maxRetries
            THEN {"retrieve"}
            ELSE {GradePathMap[GradeDocuments(s)]}
      [] n = "generate" -> {}

\* the nodes scheduled after node n finished with state s; generate leads to END
Successors(n, s) ==
    CASE n = START -> {"agent"}
      [] n = "agent" -> {AgentPathMap[DecideToRetrieve(s)]}
      [] n = "retrieve" -> {"grade_documents"}
      [] n = "grade_documents" -> {GradePathMap[GradeDocuments(s)]}
      [] n = "generate" -> {}

(***************************************************************************)
(* React tools (_createTools) and the React loop's model                   *)
(***************************************************************************)
SEARCH_DOCUMENTS == "search_documents"
EVALUATE_DOCUMENTS == "evaluate_documents"

\* searchTool.func that reports a failed search as a search without results
SearchTool_FailureAsEmpty(input, search) ==
    IF search.ok
    THEN LET retrievedDocs == MapRetrievedDocs(search.value.results) IN
         [text |-> "Found relevant documents",
          count |-> Len(retrievedDocs),
          documents |-> [k \in 1..Len(retrievedDocs) |->
                           [score |-> retrievedDocs[k].score,
                            excerpt |-> Substring(retrievedDocs[k].content, SearchDigestLen)]]]
    ELSE [text |-> "Found relevant documents", count |-> 0, documents |-> << >>]

\* searchTool.func: the digest of the documents found, or the error as text
SearchTool(input, search) ==
    IF search.ok
    THEN LET retrievedDocs == MapRetrievedDocs(search.value.results) IN
         [text |-> "Found relevant documents",
          count |-> Len(retrievedDocs),
          documents |-> [k \in 1..Len(retrievedDocs) |->
                           [score |-> retrievedDocs[k].score,
                            excerpt |-> Substring(retrievedDocs[k].content, SearchDigestLen)]]]
    ELSE [text |-> "Error searching documents", message |-> search.error]

\* the variable parts of evaluationPrompt
EvaluationPrompt(input) == [prompt |-> "evaluation", query |-> input]

\* evaluateTool.func: the verdict, or the error as text
EvaluateTool(input, completion) ==
    IF completion.ok
    THEN IF Includes(ToLowerCase(Trim(completion.value)), YES)
         THEN [text |-> "Documents are relevant and contain specific company/brand information. Use them in your response."]
         ELSE [text |-> "Documents are not relevant for this specific company query. Proceed with general knowledge."]
    ELSE [text |-> "Error evaluating documents", message |-> completion.error]

\* texts the loop's model passes to a tool: the company it reads in the
\* query, or else the query
ToolInputs(query) == {IF Includes(query, ADOBE) THEN ADOBE ELSE query}

\* contents of a final message of the loop's chat model
AnswerContents ==
    { EmptyText,
      << "n", "o" >>,
      << "A", "d", "o", "b", "e", " ", "u", "s", "e", "s", " ", "r", "e", "d", "." >> }

\* what the loop's chat model does with the conversation: the call fails,
\* it asks for a tool, or it answers
ModelResponses(query, mayCallTool) ==
    {[ok |-> FALSE]} \cup
    {[ok |-> TRUE, content |-> c] : c \in AnswerContents} \cup
    (IF mayCallTool
     THEN {[ok |-> TRUE, tool_call |-> [name |-> n, input |-> i]] :
               n \in {SEARCH_DOCUMENTS, EVALUATE_DOCUMENTS}, i \in ToolInputs(query)}
     ELSE {})

(***************************************************************************)
(* Results of execute                                                      *)
(***************************************************************************)
\* the workflow result with retrieval details only for an accepted retrieval
WorkflowResult_DetailsIfAccepted(res, query, start, clock, agentType) ==
    [sessionId |-> res.sessionId,
     query |-> query,
     answer |-> res.finalAnswer,
     explainability |->
        [executionSteps |-> res.executionSteps,
         decisionPoints |->
            [needsRAG |-> res.needsRAG,
             ragAccepted |-> res.ragAccepted,
             retryCount |-> res.retryCount],
         retrievalDetails |->
            IF Truthy(res.ragAccepted)
            THEN JsObject(
                   [searchQuery |-> res.searchQuery,
                    documentsFound |-> JsNumber(Len(res.retrievedDocs)),
                    topDocuments |->
                       [k \in 1..Min(TopDocumentsShown, Len(res.retrievedDocs)) |->
                           [score |-> res.retrievedDocs[k].score]]])
            ELSE JsNull,
         rejectionReason |-> JsString(res.rejectionReason)],
     metadata |->
        [executionTimeMs |-> clock - start,
         timestamp |-> clock,
         workflowVersion |-> "1.0.0",
         agentType |-> agentType]]

\* the object execute returns for the workflow agent
WorkflowResult(res, query, start, clock, agentType) ==
    [sessionId |-> res.sessionId,
     query |-> query,
     answer |-> res.finalAnswer,
     explainability |->
        [executionSteps |-> res.executionSteps,
         decisionPoints |->
            [needsRAG |-> res.needsRAG,
             ragAccepted |-> res.ragAccepted,
             retryCount |-> res.retryCount],
         retrievalDetails |->
            IF Truthy(res.needsRAG)
            THEN JsObject(
                   [searchQuery |-> res.searchQuery,
                    documentsFound |-> JsNumber(Len(res.retrievedDocs)),
                    topDocuments |->
                       [k \in 1..Min(TopDocumentsShown, Len(res.retrievedDocs)) |->
                           [score |-> res.retrievedDocs[k].score]]])
            ELSE JsNull,
         rejectionReason |-> JsString(res.rejectionReason)],
     metadata |->
        [executionTimeMs |-> clock - start,
         timestamp |-> clock,
         workflowVersion |-> "1.0.0",
         agentType |-> agentType]]

\* '{"input":"' + userQuery + '"}'
ToolArguments(query) ==
    << "{" >> \o Quote(<< "i", "n", "p", "u", "t" >>) \o << ":" >> \o Quote(query) \o << "}" >>

\* the React result with the identifier uuidv4 handed out last, not a new one
ReactResult_StaleSession(answer, sessionId, query, start, clock) ==
    [sessionId |-> sessionId - 1,
     query |-> query,
     answer |-> answer,
     explainability |->
        [executionSteps |->
            << [step |-> "tool_search_documents", timestamp |-> clock,
                details |-> [toolName |-> SEARCH_DOCUMENTS, arguments |-> ToolArguments(query)]],
               [step |-> "tool_evaluate_documents", timestamp |-> clock,
                details |-> [toolName |-> EVALUATE_DOCUMENTS, arguments |-> ToolArguments(query)]],
               [step |-> "generate", timestamp |-> clock,
                details |-> [agentType |-> "createReactAgent"]] >>,
         decisionPoints |->
            [needsRAG |-> JsBool(TRUE),
             ragAccepted |-> JsBool(TRUE),
             retryCount |-> 0],
         retrievalDetails |->
            JsObject([searchQuery |-> ToolArguments(query),
                      documentsFound |-> JsString(VariableText),
                      topDocuments |-> << >>]),
         rejectionReason |-> JsNull],
     metadata |->
        [executionTimeMs |-> clock - start,
         timestamp |-> clock,
         workflowVersion |-> "React-1.0.0",
         agentType |-> "createReactAgent"]]

\* the object execute returns for the React agent, naming a tool's step
\* only for the search tool
ReactResult_SearchOnly(answer, sessionId, query, start, clock) ==
    [sessionId |-> sessionId,
     query |-> query,
     answer |-> answer,
     explainability |->
        [executionSteps |->
            << [step |-> "tool_search_documents", timestamp |-> clock,
                details |-> [toolName |-> SEARCH_DOCUMENTS, arguments |-> ToolArguments(query)]],
               [step |-> "generate", timestamp |-> clock,
                details |-> [agentType |-> "createReactAgent"]] >>,
         decisionPoints |->
            [needsRAG |-> JsBool(TRUE),
             ragAccepted |-> JsBool(TRUE),
             retryCount |-> 0],
         retrievalDetails |->
            JsObject([searchQuery |-> ToolArguments(query),
                      documentsFound |-> JsString(VariableText),
                      topDocuments |-> << >>]),
         rejectionReason |-> JsNull],
     metadata |->
        [executionTimeMs |-> clock - start,
         timestamp |-> clock,
         workflowVersion |-> "React-1.0.0",
         agentType |-> "createReactAgent"]]

\* the object execute returns for the React agent
ReactResult(answer, sessionId, query, start, clock) ==
    [sessionId |-> sessionId,
     query |-> query,
     answer |-> answer,
     explainability |->
        [executionSteps |->
            << [step |-> "tool_search_documents", timestamp |-> clock,
                details |-> [toolName |-> SEARCH_DOCUMENTS, arguments |-> ToolArguments(query)]],
               [step |-> "tool_evaluate_documents", timestamp |-> clock,
                details |-> [toolName |-> EVALUATE_DOCUMENTS, arguments |-> ToolArguments(query)]],
               [step |-> "generate", timestamp |-> clock,
                details |-> [agentType |-> "createReactAgent"]] >>,
         decisionPoints |->
            [needsRAG |-> JsBool(TRUE),
             ragAccepted |-> JsBool(TRUE),
             retryCount |-> 0],
         retrievalDetails |->
            JsObject([searchQuery |-> ToolArguments(query),
                      documentsFound |-> JsString(VariableText),
                      topDocuments |-> << >>]),
         rejectionReason |-> JsNull],
     metadata |->
        [executionTimeMs |-> clock - start,
         timestamp |-> clock,
         workflowVersion |-> "React-1.0.0",
         agentType |-> "createReactAgent"]]

(***************************************************************************)
(* State of one agent and of its execution                                 *)
(***************************************************************************)
VARIABLES
    type,           \* this.type of the agent
    phase,          \* "idle", "running", "returned" or "threw": where execute is
    userQuery,      \* the userQuery argument of execute
    state,          \* the workflow graph's state
    activeNodes,    \* the workflow nodes scheduled to run
    superstep,      \* node executions of the workflow graph so far
    reactMessages,  \* the conversation of the React loop
    calls,          \* the service calls the execution made: service and success
    lastCall,       \* its latest service call: the request and the outcome
    now,            \* the clock (Date.now())
    startTime,      \* startTime of execute
    uuidCounter,    \* identifiers uuidv4 has handed out
    result,         \* what execute returned
    error           \* what execute threw

\* the router of routes/index.js and the request it is handling
VARIABLES
    req,            \* the request: its route and its body, or none
    handler,        \* where the request is in its middleware chain
    receivedAt,     \* startTime of the route handler
    parked,         \* the execution whose continuation is not the running one
    responses       \* what was sent on res

\* the MarketingAgent instances of agents/marketingAgent.ts
VARIABLES
    systemPrompt,   \* this.systemPrompt of each instance
    llmCalls,       \* how often this.llm.invoke was called
    settled         \* how the latest method call ended

\* the MarketingContentEvaluator
VARIABLES
    evaluation      \* the latest evaluateMarketingContent: the model's response and the outcome

\* the health check of the services and its route
VARIABLES
    probe,          \* where healthCheck is: "idle", "openai", "search", "returned", "threw"
    health,         \* the health object of healthCheck
    healthCalls,    \* the probes healthCheck made: the request and the outcome
    healthResponses \* what the health route sent

\* the chat page of the browser
VARIABLES
    messageInput,   \* the value of the message textarea
    isLoading,      \* this.isLoading
    sendButton,     \* the send button: its disabled property
    statusIndicator,\* the text of the status indicator
    chatMessages,   \* the children of the chatMessages element
    inFlight,       \* the sendMessage calls that are at an await
    sendCalls,      \* the calls of sendMessage: the message, isLoading and what it did
    elements        \* how many message elements were created

\* the locals of one execution, held by its continuation
runVars ==
    << type, phase, userQuery, state, activeNodes, superstep, reactMessages,
       startTime, result, error, calls, lastCall >>

routeVars == << req, handler, receivedAt, parked, responses >>

marketingVars == << systemPrompt, llmCalls, settled >>
evaluatorVars == << evaluation >>
healthVars == << probe, health, healthCalls, healthResponses >>
chatVars ==
    << messageInput, isLoading, sendButton, statusIndicator, chatMessages, inFlight,
       sendCalls, elements >>

vars ==
    << type, phase, userQuery, state, activeNodes, superstep, reactMessages,
       calls, lastCall, now, startTime, uuidCounter, result, error,
       routeVars, marketingVars, evaluatorVars, healthVars, chatVars >>

NoCall == [service |-> "none"]
NoResult == [t |-> "undefined"]
NoError == [message |-> "none"]
NoRequest == [route |-> "none"]
NoRun == [phase |-> "none"]
NotSettled == [method |-> "none", how |-> "none"]
NotEvaluated == [how |-> "none"]

\* the router before a request: no request, nothing sent
RouterInit ==
    /\ req = NoRequest
    /\ handler = "idle"
    /\ receivedAt = 0
    /\ parked = NoRun
    /\ responses = << >>

\* this.systemPrompt as the constructor sets it
DefaultSystemPrompt ==
    << "Y", "o", "u", " ", "a", "r", "e", " ", "a", " ", "e", "x", "p", "e", "r",
    "t", " ", "t", "e", "c", "h", "n", "i", "c", "a", "l", " ", "m", "a", "r",
    "k", "e", "t", "e", "r", " ", "w", "h", "o", " ", "d", "o", "e", "s", " ",
    "N", "O", "T", " ", "w", "r", "i", "t", "e", " ", "c", "l", "i", "c", "k",
    "b", "a", "i", "t" >>

\* the module's exported instance: export const marketingAgent = new MarketingAgent()
MarketingInit ==
    /\ systemPrompt = << DefaultSystemPrompt >>
    /\ llmCalls = 0
    /\ settled = NotSettled

\* no evaluation asked for yet
EvaluatorInit == evaluation = NotEvaluated

\* no health check has run
HealthInit ==
    /\ probe = "idle"
    /\ health = [openai |-> FALSE, search |-> FALSE, overall |-> FALSE]
    /\ healthCalls = << >>
    /\ healthResponses = << >>

\* new AgenticRAGChat() on the page as it is served
ChatInit ==
    /\ messageInput = << >>
    /\ isLoading = FALSE
    /\ sendButton = [disabled |-> FALSE]
    /\ statusIndicator = "Ready"
    /\ chatMessages = << >>
    /\ inFlight = {}
    /\ sendCalls = << >>
    /\ elements = 0

\* new AgenticRAGAgent(type)
Init ==
    /\ type \in AGENT_TYPES
    /\ phase = "idle"
    /\ userQuery = EmptyText
    /\ state = AgenticRAGState(0)
    /\ activeNodes = {}
    /\ superstep = 0
    /\ reactMessages = << >>
    /\ calls = << >>
    /\ lastCall = NoCall
    /\ now = 0
    /\ startTime = 0
    /\ uuidCounter = 0
    /\ result = NoResult
    /\ error = NoError
    /\ RouterInit
    /\ MarketingInit
    /\ EvaluatorInit
    /\ HealthInit
    /\ ChatInit

\* a services call was awaited: it is recorded and time has passed
Called(service, request, outcome, elapsed) ==
    /\ calls' = Append(calls, [service |-> service, ok |-> outcome.ok])
    /\ lastCall' = [service |-> service, request |-> request, outcome |-> outcome]
    /\ now' = now + elapsed

\* a catch of execute that swallows the error: execute returns undefined
Throws_Swallowed(cause) ==
    /\ phase' = "returned"
    /\ error' = NoError

\* the catch of execute: throw new Error(`Agent execution failed: ...`)
Throws(cause) ==
    /\ phase' = "threw"
    /\ error' = [message |-> "Agent execution failed", cause |-> cause]

\* the graph runtime takes the update a node returned: the reducers fold it
\* into the state and the node's outgoing edges schedule the next nodes; an
\* exception of the node, or a run past the recursion limit, ends execute
NodeReturned(n, update) ==
    IF "throw" \in DOMAIN update
    THEN /\ Throws(update.throw)
         /\ UNCHANGED << state, activeNodes, superstep >>
    ELSE IF superstep >= RecursionLimit
    THEN /\ Throws("Recursion limit reached")
         /\ UNCHANGED << state, activeNodes, superstep >>
    ELSE /\ state' = ApplyUpdate(state, update)
         /\ activeNodes' = (activeNodes \ {n}) \cup Successors(n, ApplyUpdate(state, update))
         /\ superstep' = superstep + 1
         /\ UNCHANGED << phase, error >>

\* the locals of the execution whose continuation is the running one
ThisRun ==
    [type |-> type, phase |-> phase, userQuery |-> userQuery, state |-> state,
     activeNodes |-> activeNodes, superstep |-> superstep,
     reactMessages |-> reactMessages, startTime |-> startTime,
     result |-> result, error |-> error, calls |-> calls, lastCall |-> lastCall]

\* the continuation of an execution takes over
Resume(run) ==
    /\ type' = run.type
    /\ phase' = run.phase
    /\ userQuery' = run.userQuery
    /\ state' = run.state
    /\ activeNodes' = run.activeNodes
    /\ superstep' = run.superstep
    /\ reactMessages' = run.reactMessages
    /\ startTime' = run.startTime
    /\ result' = run.result
    /\ error' = run.error
    /\ calls' = run.calls
    /\ lastCall' = run.lastCall

\* the locals of an execution of the agent of the given type before execute
\* has run a line
IdleRun(agentType) ==
    [type |-> agentType, phase |-> "idle", userQuery |-> EmptyText,
     state |-> AgenticRAGState(0), activeNodes |-> {}, superstep |-> 0,
     reactMessages |-> << >>, startTime |-> 0, result |-> NoResult, error |-> NoError,
     calls |-> << >>, lastCall |-> NoCall]

\* execute(userQuery, options) up to the await of this.agent.invoke: the
\* workflow agent builds its initial state, the React agent its messages
StartedRun(run, query, options, clock, uuid) ==
    IF run.type = WORKFLOW
    THEN LET initialState == ApplyUpdate(AgenticRAGState(uuid + 1),
                                         InitialState(uuid + 2, query, options))
         IN  [run EXCEPT !.phase = "running", !.userQuery = query, !.startTime = clock,
                         !.state = initialState,
                         !.activeNodes = Successors(START, initialState)]
    ELSE [run EXCEPT !.phase = "running", !.userQuery = query, !.startTime = clock,
                     !.reactMessages = << [role |-> "user", content |-> query] >>]

\* the identifiers uuidv4 hands out before the await of this.agent.invoke
UuidsAtStart(agentType) == IF agentType = WORKFLOW THEN 2 ELSE 0

\* execute(userQuery, options) of the agent of the given type, up to the
\* await of this.agent.invoke
ExecuteWith(agentType, query, options) ==
    /\ Resume(StartedRun([ThisRun EXCEPT !.type = agentType], query, options,
                         now, uuidCounter))
    /\ uuidCounter' = uuidCounter + UuidsAtStart(agentType)
    /\ UNCHANGED now

\* a caller executes the agent
Execute ==
    /\ phase = "idle"
    /\ \E query \in Queries, options \in OptionsSet : ExecuteWith(type, query, options)
    /\ UNCHANGED << routeVars, marketingVars, evaluatorVars, healthVars, chatVars >>

\* the agent node runs
Agent ==
    /\ type = WORKFLOW /\ phase = "running" /\ "agent" \in activeNodes
    /\ \E response \in CompletionResponses, elapsed \in Ticks :
         LET completion == GenerateCompletion(response) IN
         /\ Called("generateCompletion",
                   CompletionRequest(AnalysisPrompt(state), 1, 10), completion, elapsed)
         /\ NodeReturned("agent", AgentNode(state, now, completion))
    /\ UNCHANGED << type, userQuery, reactMessages, startTime, uuidCounter, result >>
    /\ UNCHANGED << routeVars, marketingVars, evaluatorVars, healthVars, chatVars >>

\* the retrieve node runs
Retrieve ==
    /\ type = WORKFLOW /\ phase = "running" /\ "retrieve" \in activeNodes
    /\ \E response \in SearchResponses(SearchTop), elapsed \in Ticks :
         LET search == SearchDocuments(response) IN
         /\ Called("searchDocuments", SearchRequest(state.searchQuery), search, elapsed)
         /\ NodeReturned("retrieve", RetrieveNode(state, now, search))
    /\ UNCHANGED << type, userQuery, reactMessages, startTime, uuidCounter, result >>
    /\ UNCHANGED << routeVars, marketingVars, evaluatorVars, healthVars, chatVars >>

\* the grade_documents node asking the completion service whether or not
\* documents were retrieved
GradeDocumentsStep_AlwaysAsks ==
    /\ type = WORKFLOW /\ phase = "running" /\ "grade_documents" \in activeNodes
    /\ \E response \in CompletionResponses, elapsed \in Ticks :
         LET completion == GenerateCompletion(response) IN
         /\ Called("generateCompletion",
                   CompletionRequest(GradePrompt(state), 1, 5), completion, elapsed)
         /\ NodeReturned("grade_documents", GradeDocumentsNode(state, now, completion))
    /\ UNCHANGED << type, userQuery, reactMessages, startTime, uuidCounter, result >>
    /\ UNCHANGED << routeVars, marketingVars, evaluatorVars, healthVars, chatVars >>

\* the grade_documents node runs; it awaits nothing when no document was
\* retrieved
GradeDocumentsStep ==
    /\ type = WORKFLOW /\ phase = "running" /\ "grade_documents" \in activeNodes
    /\ IF Len(state.retrievedDocs) = 0
       THEN /\ NodeReturned("grade_documents", GradeDocumentsNode(state, now, NoCall))
            /\ UNCHANGED << calls, lastCall, now >>
       ELSE \E response \in CompletionResponses, elapsed \in Ticks :
              LET completion == GenerateCompletion(response) IN
              /\ Called("generateCompletion",
                        CompletionRequest(GradePrompt(state), 1, 5), completion, elapsed)
              /\ NodeReturned("grade_documents", GradeDocumentsNode(state, now, completion))
    /\ UNCHANGED << type, userQuery, reactMessages, startTime, uuidCounter, result >>
    /\ UNCHANGED << routeVars, marketingVars, evaluatorVars, healthVars, chatVars >>

\* the generate node runs
Generate ==
    /\ type = WORKFLOW /\ phase = "running" /\ "generate" \in activeNodes
    /\ \E response \in CompletionResponses, elapsed \in Ticks :
         LET completion == GenerateCompletion(response) IN
         /\ Called("generateCompletion",
                   CompletionRequest(GenerationPrompt(state), 7, 2000), completion, elapsed)
         /\ NodeReturned("generate", GenerateNode(state, now, completion))
    /\ UNCHANGED << type, userQuery, reactMessages, startTime, uuidCounter, result >>
    /\ UNCHANGED << routeVars, marketingVars, evaluatorVars, healthVars, chatVars >>

\* this.agent.invoke resolved: execute returns the workflow's result
WorkflowReturn ==
    /\ type = WORKFLOW /\ phase = "running" /\ activeNodes = {}
    /\ result' = WorkflowResult(state, userQuery, startTime, now, type)
    /\ phase' = "returned"
    /\ UNCHANGED << type, userQuery, state, activeNodes, superstep, reactMessages,
                    calls, lastCall, now, startTime, uuidCounter, error >>
    /\ UNCHANGED << routeVars, marketingVars, evaluatorVars, healthVars, chatVars >>

LastMessage == reactMessages[Len(reactMessages)]
ToolCallPending(name) ==
    /\ Len(reactMessages) > 0
    /\ "tool_call" \in DOMAIN LastMessage
    /\ LastMessage.tool_call.name = name
ToolCallsMade == Cardinality({k \in 1..Len(reactMessages) : reactMessages[k].role = "tool"})

\* the React loop calls its chat model: the call fails and execute throws,
\* the model asks for a tool, or it answers and execute returns
ReactModel ==
    /\ type = REACT /\ phase = "running"
    /\ Len(reactMessages) > 0 /\ "tool_call" \notin DOMAIN LastMessage
    /\ \E response \in ModelResponses(userQuery, ToolCallsMade < MaxToolCalls),
          elapsed \in Ticks :
         /\ now' = now + elapsed
         /\ IF ~response.ok
            THEN /\ Throws("Model call failed")
                 /\ UNCHANGED << reactMessages, result, uuidCounter >>
            ELSE IF "tool_call" \in DOMAIN response
            THEN /\ reactMessages' = Append(reactMessages,
                        [role |-> "ai", content |-> EmptyText, tool_call |-> response.tool_call])
                 /\ UNCHANGED << phase, error, result, uuidCounter >>
            ELSE /\ reactMessages' = Append(reactMessages,
                        [role |-> "ai", content |-> response.content])
                 /\ result' = ReactResult(response.content, uuidCounter + 1, userQuery,
                                          startTime, now')
                 /\ uuidCounter' = uuidCounter + 1
                 /\ phase' = "returned"
                 /\ UNCHANGED error
    /\ UNCHANGED << type, userQuery, state, activeNodes, superstep, calls, lastCall, startTime >>
    /\ UNCHANGED << routeVars, marketingVars, evaluatorVars, healthVars, chatVars >>

\* the loop runs search_documents
SearchToolStep ==
    /\ type = REACT /\ phase = "running" /\ ToolCallPending(SEARCH_DOCUMENTS)
    /\ \E response \in SearchResponses(SearchTop), elapsed \in Ticks :
         LET input == LastMessage.tool_call.input
             search == SearchDocuments(response)
         IN  /\ Called("searchDocuments", SearchRequest(input), search, elapsed)
             /\ reactMessages' = Append(reactMessages,
                    [role |-> "tool", name |-> SEARCH_DOCUMENTS,
                     content |-> SearchTool(input, search)])
    /\ UNCHANGED << type, phase, userQuery, state, activeNodes, superstep, startTime,
                    uuidCounter, result, error >>
    /\ UNCHANGED << routeVars, marketingVars, evaluatorVars, healthVars, chatVars >>

\* the loop runs evaluate_documents
EvaluateToolStep ==
    /\ type = REACT /\ phase = "running" /\ ToolCallPending(EVALUATE_DOCUMENTS)
    /\ \E response \in CompletionResponses, elapsed \in Ticks :
         LET input == LastMessage.tool_call.input
             completion == GenerateCompletion(response)
         IN  /\ Called("generateCompletion",
                       CompletionRequest(EvaluationPrompt(input), 1, 5), completion, elapsed)
             /\ reactMessages' = Append(reactMessages,
                    [role |-> "tool", name |-> EVALUATE_DOCUMENTS,
                     content |-> EvaluateTool(input, completion)])
    /\ UNCHANGED << type, phase, userQuery, state, activeNodes, superstep, startTime,
                    uuidCounter, result, error >>
    /\ UNCHANGED << routeVars, marketingVars, evaluatorVars, healthVars, chatVars >>

Next ==
    \/ Execute
    \/ Agent
    \/ Retrieve
    \/ GradeDocumentsStep
    \/ Generate
    \/ WorkflowReturn
    \/ ReactModel
    \/ SearchToolStep
    \/ EvaluateToolStep

Spec == Init /\ [][Next]_vars

\* every awaited call settles and the runtime keeps scheduling
FairSpec == Spec /\ WF_vars(Next)

(***************************************************************************)
(* The router (routes/index.js): query validation, the query routes and    *)
(* the comparison route                                                    *)
(***************************************************************************)
COMPARE == "/compare"
WorkflowQueryRoutes == {"/workflow/query", "/agentic-rag/query"}
ReactQueryRoutes == {"/react/query", "/react-agentic-rag/query"}
QueryRoutes == WorkflowQueryRoutes \cup ReactQueryRoutes \cup {COMPARE}

\* handleQuery(workflowAgent, ...) or handleQuery(reactAgent, ...)
AgentOf(route) == IF route \in WorkflowQueryRoutes THEN WORKFLOW ELSE REACT

\* bodies of requests: no query, a query that is no string, an empty and a
\* blank one, a query, and a query with white space around it
BlankText == << " ", "\t", " " >>
PaddedQuery == << " " >> \o QueryAdobe \o << " ", "\n" >>
BodyQueries ==
    { JsUndefined, JsNull, JsNumber(42), JsString(EmptyText), JsString(BlankText),
      JsString(QueryAdobe), JsString(PaddedQuery) }
Bodies ==
    {[query |-> q] : q \in BodyQueries}

InvalidRequestMessage ==
    << "Q", "u", "e", "r", "y", " ", "p", "a", "r", "a", "m", "e", "t", "e", "r",
    " ", "i", "s", " ", "r", "e", "q", "u", "i", "r", "e", "d", " ", "a", "n",
    "d", " ", "m", "u", "s", "t", " ", "b", "e", " ", "a", " ", "n", "o", "n",
    "-", "e", "m", "p", "t", "y", " ", "s", "t", "r", "i", "n", "g" >>

\* validateQuery that tests query.length where the code tests
\* query.trim().length
ValidateQuery_LengthUntrimmed(body, clock) ==
    LET query == body.query IN
    IF ~Truthy(query) \/ KindOf(query) # "string" \/ Len(query.v) = 0
    THEN [next |-> FALSE,
          status |-> 400,
          json |-> [error |-> "Invalid request",
                    message |-> InvalidRequestMessage,
                    timestamp |-> clock]]
    ELSE [next |-> TRUE, body |-> [body EXCEPT !.query = JsString(Trim(query.v))]]

\* validateQuery: the 400 answer, or the body with its query trimmed
ValidateQuery(body, clock) ==
    LET query == body.query IN
    IF ~Truthy(query) \/ KindOf(query) # "string" \/ Len(Trim(query.v)) = 0
    THEN [next |-> FALSE,
          status |-> 400,
          json |-> [error |-> "Invalid request",
                    message |-> InvalidRequestMessage,
                    timestamp |-> clock]]
    ELSE [next |-> TRUE, body |-> [body EXCEPT !.query = JsString(Trim(query.v))]]

\* const { query, options = {} } = req.body
OptionsOf(body) == IF "options" \in DOMAIN body THEN body.options ELSE NoOptions

\* handleError: the answer to an error passed to next
HandleError(err, clock) ==
    [status |-> 500,
     json |-> [error |-> "Request failed", message |-> err, timestamp |-> clock]]

\* the body of the comparison's answer
ComparisonJson(query, workflowResult, reactResult, responseTime, clock) ==
    [query |-> query,
     comparison |->
        [workflow |-> workflowResult,
         react |-> reactResult,
         performanceComparison |->
            [workflowTime |-> workflowResult.metadata.executionTimeMs,
             reactTime |-> reactResult.metadata.executionTimeMs,
             totalTime |-> responseTime]],
     metadata |-> [executionTimeMs |-> responseTime, timestamp |-> clock]]

agentVars == << runVars, now, uuidCounter >>

\* res.status(...).json(...)
Send(status, json) == responses' = Append(responses, [status |-> status, json |-> json])

\* a request for one of the query routes arrives
Receive ==
    /\ handler = "idle"
    /\ \E route \in QueryRoutes, body \in Bodies : req' = [route |-> route, body |-> body]
    /\ handler' = "validateQuery"
    /\ UNCHANGED << agentVars, receivedAt, parked, responses, marketingVars, evaluatorVars, healthVars, chatVars >>

\* the validateQuery middleware
ValidateQueryStep ==
    /\ handler = "validateQuery"
    /\ LET checked == ValidateQuery(req.body, now) IN
       IF checked.next
       THEN /\ req' = [req EXCEPT !.body = checked.body]
            /\ handler' = "handler"
            /\ UNCHANGED responses
       ELSE /\ Send(checked.status, checked.json)
            /\ handler' = "done"
            /\ UNCHANGED req
    /\ UNCHANGED << agentVars, receivedAt, parked, marketingVars, evaluatorVars, healthVars, chatVars >>

\* handleQuery(agent, agentType) up to the await of agent.execute
HandleQuery ==
    /\ handler = "handler" /\ req.route # COMPARE
    /\ receivedAt' = now
    /\ ExecuteWith(AgentOf(req.route), req.body.query.v, OptionsOf(req.body))
    /\ handler' = "awaiting"
    /\ UNCHANGED << req, parked, responses, marketingVars, evaluatorVars, healthVars, chatVars >>

\* the comparison handler up to the await of Promise.all: both executions
\* run up to their first await
Compare ==
    /\ handler = "handler" /\ req.route = COMPARE
    /\ receivedAt' = now
    /\ LET query == req.body.query.v
           options == OptionsOf(req.body)
       IN  /\ Resume(StartedRun(IdleRun(WORKFLOW), query, options, now, uuidCounter))
           /\ parked' = StartedRun(IdleRun(REACT), query, options, now,
                                   uuidCounter + UuidsAtStart(WORKFLOW))
           /\ uuidCounter' = uuidCounter + UuidsAtStart(WORKFLOW) + UuidsAtStart(REACT)
    /\ handler' = "awaiting"
    /\ UNCHANGED << req, responses, now, marketingVars, evaluatorVars, healthVars, chatVars >>

\* an await that settles with the first execution to settle, as Promise.race
AwaitSettled_Race ==
    /\ handler = "awaiting"
    /\ IF req.route = COMPARE
       THEN phase \in {"returned", "threw"} \/ parked.phase \in {"returned", "threw"}
       ELSE phase \in {"returned", "threw"}

\* the promise the handler awaits has settled: its continuation runs before
\* any other callback
AwaitSettled ==
    /\ handler = "awaiting"
    /\ IF req.route = COMPARE
       THEN \/ phase = "threw"
            \/ parked.phase = "threw"
            \/ phase = "returned" /\ parked.phase = "returned"
       ELSE phase \in {"returned", "threw"}

\* the event loop runs a callback of a pending execution
Scheduled == ~AwaitSettled

\* the change to the other execution with the steps kept in one list of the
\* agent: the execution that takes over sees the steps of the other before
\* its own
Switch_SharedSteps ==
    /\ Scheduled
    /\ parked.phase = "running"
    /\ Resume([parked EXCEPT !.state.executionSteps = state.executionSteps \o @])
    /\ parked' = ThisRun
    /\ UNCHANGED << req, handler, receivedAt, responses, now, uuidCounter,
                    marketingVars, evaluatorVars, healthVars, chatVars >>

\* the callback that runs next belongs to the other execution
Switch ==
    /\ Scheduled
    /\ parked.phase = "running"
    /\ Resume(parked)
    /\ parked' = ThisRun
    /\ UNCHANGED << req, handler, receivedAt, responses, now, uuidCounter,
                    marketingVars, evaluatorVars, healthVars, chatVars >>

\* the execution of the agent of the given type
RunOf(agentType) == IF type = agentType THEN ThisRun ELSE parked

\* the rejection the handler's await throws
Rejection == IF phase = "threw" THEN error ELSE parked.error

\* the handler after its await, answering a comparison of which the workflow
\* returned by the workflow's result alone
Respond_PartialResult ==
    /\ AwaitSettled
    /\ IF req.route = COMPARE
       THEN IF phase = "returned" /\ parked.phase = "returned"
            THEN Send(200, ComparisonJson(req.body.query.v, RunOf(WORKFLOW).result,
                                          RunOf(REACT).result, now - receivedAt, now))
            ELSE IF RunOf(WORKFLOW).phase = "returned"
            THEN Send(200, [query |-> req.body.query.v,
                            comparison |-> [workflow |-> RunOf(WORKFLOW).result]])
            ELSE LET answer == HandleError(Rejection, now) IN Send(answer.status, answer.json)
       ELSE IF phase = "returned"
            THEN Send(200, result)
            ELSE LET answer == HandleError(error, now) IN Send(answer.status, answer.json)
    /\ handler' = "done"
    /\ UNCHANGED << agentVars, req, receivedAt, parked, marketingVars, evaluatorVars, healthVars, chatVars >>

\* the handler after its await: res.json(...), or next(error) and handleError
Respond ==
    /\ AwaitSettled
    /\ IF req.route = COMPARE
       THEN IF phase = "returned" /\ parked.phase = "returned"
            THEN Send(200, ComparisonJson(req.body.query.v, RunOf(WORKFLOW).result,
                                          RunOf(REACT).result, now - receivedAt, now))
            ELSE LET answer == HandleError(Rejection, now) IN Send(answer.status, answer.json)
       ELSE IF phase = "returned"
            THEN Send(200, result)
            ELSE LET answer == HandleError(error, now) IN Send(answer.status, answer.json)
    /\ handler' = "done"
    /\ UNCHANGED << agentVars, req, receivedAt, parked, marketingVars, evaluatorVars, healthVars, chatVars >>

\* the services behind the router: an index that holds the first RouteDocs
\* documents, a chat completion that answers RETRIEVE to the analysis and
\* yes or no to anything else, and a loop model that calls no tool twice
\* and whose answer names Adobe
RouteSearchResponses ==
    {r \in SearchResponses(SearchTop) :
        r.ok => \A k \in 1..Len(r.results) :
                   \E i \in 1..RouteDocs : r.results[k].document = Document(i)}
RouteCompletions(prompt) ==
    IF prompt = "analysis"
    THEN {RETRIEVE}
    ELSE {<< " ", "Y", "e", "s", "\n" >>, << "n", "o" >>}
RouteServices ==
    /\ \/ lastCall.service = "none"
       \/ /\ lastCall.service = "searchDocuments"
          /\ lastCall.outcome \in {SearchDocuments(r) : r \in RouteSearchResponses}
       \/ /\ lastCall.service = "generateCompletion"
          /\ lastCall.outcome.ok
          /\ lastCall.outcome.value
                \in RouteCompletions(lastCall.request.messages[1].content.prompt)
    /\ \A k \in 1..Len(reactMessages) :
          (reactMessages[k].role = "ai" /\ "tool_call" \notin DOMAIN reactMessages[k])
             => Includes(reactMessages[k].content, ADOBE)
    /\ \A j, k \in 1..Len(reactMessages) :
          (/\ j < k
           /\ "tool_call" \in DOMAIN reactMessages[j]
           /\ "tool_call" \in DOMAIN reactMessages[k])
             => reactMessages[j].tool_call.name # reactMessages[k].tool_call.name

RouteInit == Init /\ type = WORKFLOW

RouteNext ==
    \/ Receive
    \/ ValidateQueryStep
    \/ HandleQuery
    \/ Compare
    \/ Switch
    \/ Respond
    \/ Scheduled /\ Agent /\ RouteServices'
    \/ Scheduled /\ Retrieve /\ RouteServices'
    \/ Scheduled /\ GradeDocumentsStep /\ RouteServices'
    \/ Scheduled /\ Generate /\ RouteServices'
    \/ Scheduled /\ WorkflowReturn
    \/ Scheduled /\ ReactModel /\ RouteServices'
    \/ Scheduled /\ SearchToolStep /\ RouteServices'
    \/ Scheduled /\ EvaluateToolStep /\ RouteServices'

RouteSpec == RouteInit /\ [][RouteNext]_vars

(***************************************************************************)
(* MarketingAgent (agents/marketingAgent.ts)                               *)
(***************************************************************************)
ConservativeTone ==
    << "C", "o", "n", "s", "e", "r", "v", "a", "t", "i", "v", "e", " ", "m", "a",
       "r", "k", "e", "t", "i", "n", "g", " ", "t", "o", "n", "e" >>
\* a prompt with white space at its ends
PaddedTone == << " ", "B", "o", "l", "d", " " >>
TestQuery == << "T", "e", "s", "t", " ", "q", "u", "e", "r", "y" >>
MockedResponse ==
    << "M", "o", "c", "k", "e", "d", " ", "r", "e", "s", "p", "o", "n", "s", "e",
       " ", "f", "r", "o", "m", " ", "O", "p", "e", "n", "A", "I" >>

\* arguments of setSystemPrompt, typed string but given anything
PromptArguments ==
    { JsUndefined, JsNull, JsString(EmptyText), JsString(BlankText),
      JsString(ConservativeTone), JsString(PaddedTone) }
\* arguments of generateMarketingContent
QueryArguments ==
    { JsUndefined, JsNull, JsString(EmptyText), JsString(BlankText),
      JsString(TestQuery), JsString(<< " ", "h", "i", "\n" >>) }
\* what this.llm.invoke does: it rejects, or resolves to a message
LlmResponses ==
    { [ok |-> FALSE],
      [ok |-> TRUE, content |-> MockedResponse],
      [ok |-> TRUE, content |-> EmptyText] }

\* !value || value.trim().length === 0
IsEmptyArgument(value) == ~Truthy(value) \/ Len(Trim(value.v)) = 0

\* setSystemPrompt that keeps prompt.trim() where the code keeps prompt
SetSystemPrompt_Trimmed(prompts, i, prompt) ==
    IF IsEmptyArgument(prompt)
    THEN [how |-> "threw", message |-> "System prompt cannot be empty"]
    ELSE [how |-> "returned", systemPrompt |-> [prompts EXCEPT ![i] = Trim(prompt.v)]]

\* setSystemPrompt(prompt) of instance i: it throws, or the instances'
\* prompts after it
SetSystemPrompt(prompts, i, prompt) ==
    IF IsEmptyArgument(prompt)
    THEN [how |-> "threw", message |-> "System prompt cannot be empty"]
    ELSE [how |-> "returned", systemPrompt |-> [prompts EXCEPT ![i] = prompt.v]]

\* getSystemPrompt of a class whose instances read the prompt of the
\* module's default instance
GetSystemPrompt_OfDefault(prompts, i) == prompts[1]

\* getSystemPrompt() of instance i
GetSystemPrompt(prompts, i) == prompts[i]

\* the messages generateMarketingContent sends to the model
LlmMessages(prompt, query) ==
    << [role |-> "system", content |-> prompt], [role |-> "user", content |-> query] >>

\* generateMarketingContent that tests !userQuery alone
GenerateMarketingContent_Untrimmed(prompt, query, response) ==
    IF ~Truthy(query)
    THEN [how |-> "threw", message |-> "User query cannot be empty", invoked |-> << >>]
    ELSE IF ~response.ok
    THEN [how |-> "threw", message |-> "llm.invoke failed",
          invoked |-> << LlmMessages(prompt, query.v) >>]
    ELSE [how |-> "returned", value |-> response.content,
          invoked |-> << LlmMessages(prompt, query.v) >>]

\* generateMarketingContent(query) of an instance with the given
\* prompt: it rejects before or in the call of the model, or resolves to
\* the content of the model's message
GenerateMarketingContent(prompt, query, response) ==
    IF IsEmptyArgument(query)
    THEN [how |-> "threw", message |-> "User query cannot be empty", invoked |-> << >>]
    ELSE IF ~response.ok
    THEN [how |-> "threw", message |-> "llm.invoke failed",
          invoked |-> << LlmMessages(prompt, query.v) >>]
    ELSE [how |-> "returned", value |-> response.content,
          invoked |-> << LlmMessages(prompt, query.v) >>]

\* new MarketingAgent(config)
NewMarketingAgent ==
    /\ Len(systemPrompt) < MaxAgents
    /\ systemPrompt' = Append(systemPrompt, DefaultSystemPrompt)
    /\ settled' = [method |-> "constructor", instance |-> Len(systemPrompt) + 1,
                   how |-> "returned"]
    /\ UNCHANGED << llmCalls, agentVars, routeVars, evaluatorVars, healthVars, chatVars >>

\* agent.setSystemPrompt(prompt)
SetSystemPromptCall ==
    /\ \E i \in 1..Len(systemPrompt), prompt \in PromptArguments :
         LET outcome == SetSystemPrompt(systemPrompt, i, prompt) IN
         /\ systemPrompt' = IF outcome.how = "threw" THEN systemPrompt
                                                     ELSE outcome.systemPrompt
         /\ settled' = [method |-> "setSystemPrompt", instance |-> i, argument |-> prompt,
                        how |-> outcome.how,
                        message |-> IF outcome.how = "threw" THEN outcome.message ELSE "none"]
    /\ UNCHANGED << llmCalls, agentVars, routeVars, evaluatorVars, healthVars, chatVars >>

\* agent.getSystemPrompt()
GetSystemPromptCall ==
    /\ \E i \in 1..Len(systemPrompt) :
         settled' = [method |-> "getSystemPrompt", instance |-> i, how |-> "returned",
                     value |-> GetSystemPrompt(systemPrompt, i)]
    /\ UNCHANGED << systemPrompt, llmCalls, agentVars, routeVars, evaluatorVars, healthVars, chatVars >>

\* await agent.generateMarketingContent(query)
GenerateMarketingContentCall ==
    /\ llmCalls < MaxInvocations
    /\ \E i \in 1..Len(systemPrompt), query \in QueryArguments,
          response \in LlmResponses :
         LET outcome == GenerateMarketingContent(systemPrompt[i], query, response) IN
         /\ llmCalls' = llmCalls + Len(outcome.invoked)
         /\ settled' = [method |-> "generateMarketingContent", instance |-> i,
                        argument |-> query, response |-> response, outcome |-> outcome]
    /\ UNCHANGED << systemPrompt, agentVars, routeVars, evaluatorVars, healthVars, chatVars >>

MarketingNext ==
    \/ NewMarketingAgent
    \/ SetSystemPromptCall
    \/ GetSystemPromptCall
    \/ GenerateMarketingContentCall

MarketingSpec == Init /\ [][MarketingNext]_vars

(***************************************************************************)
(* MarketingContentEvaluator (evaluators/marketingEvaluator)               *)
(* Numbers that may have a fraction are counted in hundredths.             *)
(***************************************************************************)
Hundredths == 100
NaN == [nan |-> TRUE]
Num(h) == [nan |-> FALSE, h |-> h]
\* a number of the parsed JSON, in hundredths
JsDecimal(h) == [t |-> "number", h |-> h]

\* the value of a text of decimal digits
RECURSIVE DigitsValue(_)
DigitsValue(digits) ==
    IF Len(digits) = 0 THEN 0
    ELSE 10 * DigitsValue(SubSeq(digits, 1, Len(digits) - 1))
            + (IndexOf(digits[Len(digits)], DigitChars) - 1)

IsDigits(text) == \A k \in 1..Len(text) : IndexOf(text[k], DigitChars) > 0

\* Number(string) for the texts of the model: white space is trimmed, the
\* empty text is 0, digits with at most two digits after a point are that
\* number and every other text is NaN (signs, exponents and other radixes
\* are not among the inputs)
StringToNumber(text) ==
    LET t == Trim(text)
        point == IndexOf(".", t)
        whole == IF point = 0 THEN t ELSE SubSeq(t, 1, point - 1)
        fraction == IF point = 0 THEN << >> ELSE SubSeq(t, point + 1, Len(t))
    IN  IF Len(t) = 0 THEN Num(0)
        ELSE IF /\ IsDigits(whole) /\ IsDigits(fraction)
                /\ Len(whole) + Len(fraction) > 0 /\ Len(fraction) <= 2
        THEN Num(Hundredths * DigitsValue(whole)
                  + (IF Len(fraction) = 1 THEN 10 ELSE 1) * DigitsValue(fraction))
        ELSE NaN

\* Number(score)
ToNumber(score) ==
    CASE score.t = "undefined" -> NaN
      [] score.t = "null" -> Num(0)
      [] score.t = "boolean" -> Num(IF score.v THEN Hundredths ELSE 0)
      [] score.t = "number" -> Num(score.h)
      [] score.t = "string" -> StringToNumber(score.v)
      [] OTHER -> NaN

\* Math.round of a number in hundredths: halves go up
MathRound(h) == (h + 50) \div Hundredths

\* validateScore without the test numScore > 5
ValidateScore_NoUpperLimit(score) ==
    LET numScore == ToNumber(score) IN
    IF numScore.nan \/ numScore.h < 1 * Hundredths
    THEN 3
    ELSE MathRound(numScore.h)

\* validateScore(score)
ValidateScore(score) ==
    LET numScore == ToNumber(score) IN
    IF numScore.nan \/ numScore.h < 1 * Hundredths \/ numScore.h > 5 * Hundredths
    THEN 3
    ELSE MathRound(numScore.h)

NoFeedbackProvided ==
    << "N", "o", " ", "f", "e", "e", "d", "b", "a", "c", "k", " ", "p", "r", "o",
       "v", "i", "d", "e", "d" >>
RawResponsePrefix ==
    << "R", "a", "w", " ", "e", "v", "a", "l", "u", "a", "t", "i", "o", "n", " ",
       "r", "e", "s", "p", "o", "n", "s", "e", ":", " " >>

\* the fallback of parseEvaluationResponse
FallbackEvaluation(text) ==
    [quality_score |-> 3, clarity_score |-> 3, engagement_score |-> 3,
     platform_appropriateness |-> 3,
     overall_feedback |-> RawResponsePrefix \o text,
     meets_requirements |-> TRUE]

\* parseEvaluationResponse(response). What response.match(/\{[\s\S]*\}/) and
\* JSON.parse make of the text is given with the response: no match, a match
\* that JSON.parse refuses, or the parsed object (a field it lacks is
\* undefined)
ParseEvaluationResponse(response) ==
    IF response.json = "object"
    THEN LET parsed == response.parsed IN
         [quality_score |-> ValidateScore(parsed.quality_score),
          clarity_score |-> ValidateScore(parsed.clarity_score),
          engagement_score |-> ValidateScore(parsed.engagement_score),
          platform_appropriateness |-> ValidateScore(parsed.platform_appropriateness),
          overall_feedback |-> IF Truthy(parsed.overall_feedback)
                               THEN parsed.overall_feedback.v
                               ELSE NoFeedbackProvided,
          meets_requirements |-> Truthy(parsed.meets_requirements)]
    ELSE FallbackEvaluation(response.text)

\* what a model may give as a score
ScoreValues ==
    { JsUndefined, JsNull, JsBool(TRUE), JsString(<< "a", "b", "c" >>),
      JsString(<< " ", "4", ".", "5" >>),
      JsDecimal(99), JsDecimal(149), JsDecimal(250), JsDecimal(501) }
GoodTweet == << "G", "o", "o", "d", " ", "t", "w", "e", "e", "t" >>
FeedbackValues == { JsUndefined, JsString(GoodTweet) }
MeetsValues == { JsUndefined, JsBool(TRUE), JsBool(FALSE) }

\* the contents of the model's message
EvaluationResponses ==
    { [json |-> "no match", text |-> GoodTweet],
      [json |-> "syntax error", text |-> << "{", "4", "}" >>] }
    \cup { [json |-> "object",
            parsed |-> [quality_score |-> q, clarity_score |-> c, engagement_score |-> e,
                        platform_appropriateness |-> p, overall_feedback |-> f,
                        meets_requirements |-> m]] :
            q \in ScoreValues, c \in ScoreValues, e \in ScoreValues, p \in ScoreValues,
            f \in FeedbackValues, m \in MeetsValues }

\* evaluator.evaluateMarketingContent(input) up to its await of
\* this.llm.invoke; the evaluations of the model are made one after another
EvaluateMarketingContent ==
    /\ evaluation.how # "awaiting"
    /\ evaluation' = [how |-> "awaiting"]
    /\ UNCHANGED << agentVars, routeVars, marketingVars, healthVars, chatVars >>

\* this.llm.invoke resolves: the evaluation returns what
\* parseEvaluationResponse makes of the message's content
EvaluationReturns ==
    /\ evaluation.how = "awaiting"
    /\ \E response \in EvaluationResponses :
         evaluation' = [how |-> "returned", response |-> response,
                        value |-> ParseEvaluationResponse(response)]
    /\ UNCHANGED << agentVars, routeVars, marketingVars, healthVars, chatVars >>

\* this.llm.invoke rejects, and so does the evaluation
EvaluationRejects ==
    /\ evaluation.how = "awaiting"
    /\ evaluation' = [how |-> "threw"]
    /\ UNCHANGED << agentVars, routeVars, marketingVars, healthVars, chatVars >>

EvaluatorNext ==
    \/ EvaluateMarketingContent
    \/ EvaluationReturns
    \/ EvaluationRejects

EvaluatorSpec == Init /\ [][EvaluatorNext]_vars

(***************************************************************************)
(* Properties of the workflow strategy                                     *)
(***************************************************************************)
StepNames(steps) == [k \in 1..Len(steps) |-> steps[k].step]
StepRan(name) == \E k \in 1..Len(state.executionSteps) : state.executionSteps[k].step = name
WorkflowReturned == type = WORKFLOW /\ phase = "returned"
FailedCalls(service) == {k \in 1..Len(calls) : calls[k].service = service /\ ~calls[k].ok}
CallsTo(service) == {k \in 1..Len(calls) : calls[k].service = service}
\* Retrieve ran and left no document, after a failed or an empty search
RetrievedNothing == StepRan("retrieval") /\ Len(state.retrievedDocs) = 0

\* 'no documents retrieved'
LowerCaseNoDocumentsReason ==
    << "n", "o", " ", "d", "o", "c", "u", "m", "e", "n", "t", "s", " ", "r", "e",
       "t", "r", "i", "e", "v", "e", "d" >>

\* C1 as stated: after a retrieval that returned zero documents the result
\* has ragAccepted false and the rejection reason "no documents retrieved".
C1_ReasonAsStated ==
    (WorkflowReturned /\ RetrievedNothing) =>
        /\ result.explainability.decisionPoints.ragAccepted = JsBool(FALSE)
        /\ result.explainability.rejectionReason = JsString(LowerCaseNoDocumentsReason)

\* C1 amended: after a retrieval that returned zero documents (the search
\* failed or found nothing) the result has ragAccepted false and the
\* rejection reason 'No documents retrieved', capitalised as the code writes
\* it, and the Grade stage asked the completion service nothing.
C1_NoDocumentsRejected ==
    (WorkflowReturned /\ RetrievedNothing) =>
        /\ result.explainability.decisionPoints.ragAccepted = JsBool(FALSE)
        /\ result.explainability.rejectionReason = JsString(NoDocumentsRetrieved)
        /\ ToLowerCase(result.explainability.rejectionReason.v) = LowerCaseNoDocumentsReason
        /\ Cardinality(CallsTo("generateCompletion")) = 2

C1_Witness ==
    /\ WorkflowReturned /\ RetrievedNothing
    /\ FailedCalls("searchDocuments") # {}

\* C2: once Analyze has decided GENERATE (needsRAG false), no document is
\* ever retrieved, ragAccepted stays null, neither Retrieve nor Grade runs,
\* and the result reports ragAccepted null and no retrieval details.
C2_GenerateSkipsRetrieval ==
    (type = WORKFLOW /\ state.needsRAG = JsBool(FALSE)) =>
        /\ Len(state.retrievedDocs) = 0
        /\ state.ragAccepted = JsNull
        /\ ~StepRan("retrieval") /\ ~StepRan("grade_documents")
        /\ CallsTo("searchDocuments") = {}
        /\ phase = "returned" =>
             /\ result.explainability.decisionPoints.needsRAG = JsBool(FALSE)
             /\ result.explainability.decisionPoints.ragAccepted = JsNull
             /\ result.explainability.retrievalDetails = JsNull

C2_Witness ==
    /\ WorkflowReturned
    /\ result.explainability.decisionPoints.needsRAG = JsBool(FALSE)
    /\ FailedCalls("generateCompletion") = {}

\* C3: whatever service calls fail, execute of the workflow agent never
\* throws 'Agent execution failed', and once the graph has run to its end it
\* has returned a result.
C3_WorkflowNeverThrows ==
    type = WORKFLOW =>
        /\ phase # "threw"
        /\ error = NoError
        /\ phase = "returned" => result # NoResult

C3_Witness ==
    /\ WorkflowReturned
    /\ result # NoResult
    /\ Len(calls) = 3
    /\ FailedCalls("searchDocuments") = {2}
    /\ FailedCalls("generateCompletion") = {3}

\* C4: when every completion call raised, execute returns a result whose
\* answer is the fallback text, whose needsRAG is false and whose steps are
\* exactly agent_analysis and generate.
C4_AllCompletionsFail ==
    (type = WORKFLOW /\ FailedCalls("generateCompletion") = CallsTo("generateCompletion")) =>
        /\ phase # "threw"
        /\ phase = "returned" =>
             /\ result.answer = FallbackAnswer
             /\ result.explainability.decisionPoints.needsRAG = JsBool(FALSE)
             /\ StepNames(result.explainability.executionSteps)
                  = << "agent_analysis", "generate" >>

C4_Witness ==
    /\ WorkflowReturned
    /\ Len(calls) = 2
    /\ FailedCalls("generateCompletion") = {1, 2}

\* C5: a returned workflow result lists the four steps agent_analysis,
\* retrieval, grade_documents, generate in this order when retrieval was
\* triggered and the two steps agent_analysis, generate when it was not,
\* whether or not service calls failed.
C5_StepsByPath ==
    WorkflowReturned =>
        StepNames(result.explainability.executionSteps) =
            IF Truthy(result.explainability.decisionPoints.needsRAG)
            THEN << "agent_analysis", "retrieval", "grade_documents", "generate" >>
            ELSE << "agent_analysis", "generate" >>

C5_Witness ==
    /\ WorkflowReturned
    /\ Len(result.explainability.executionSteps) = 4
    /\ FailedCalls("generateCompletion") = {3}

\* C6: in every state of a workflow run, ragAccepted true implies that
\* retrievedDocs is not empty.
C6_AcceptedImpliesDocuments ==
    (type = WORKFLOW /\ state.ragAccepted = JsBool(TRUE)) => Len(state.retrievedDocs) > 0

C6_Witness ==
    /\ type = WORKFLOW /\ phase = "running"
    /\ state.ragAccepted = JsBool(TRUE)
    /\ activeNodes = {"generate"}

\* C7: at most one stage is scheduled at a time; execute schedules agent
\* first; agent is followed by retrieve iff needsRAG is true and by generate
\* otherwise; retrieve by grade_documents; grade_documents by generate
\* whatever the grade; generate by nothing; a finished run schedules nothing.
C7_StageOrder ==
    [][type = WORKFLOW =>
         /\ Cardinality(activeNodes') <= 1
         /\ (phase = "idle" /\ phase' # "idle") => activeNodes' = {"agent"}
         /\ (activeNodes = {"agent"} /\ activeNodes' # activeNodes) =>
               activeNodes' = IF state'.needsRAG = JsBool(TRUE)
                              THEN {"retrieve"} ELSE {"generate"}
         /\ (activeNodes = {"retrieve"} /\ activeNodes' # activeNodes) =>
               activeNodes' = {"grade_documents"}
         /\ (activeNodes = {"grade_documents"} /\ activeNodes' # activeNodes) =>
               activeNodes' = {"generate"}
         /\ (activeNodes = {"generate"} /\ activeNodes' # activeNodes) =>
               activeNodes' = {}
         /\ (phase # "idle" /\ activeNodes = {}) => activeNodes' = {}
         /\ (phase = "running" /\ phase' = "returned") => activeNodes = {}
    ]_vars

C7_Witness ==
    /\ WorkflowReturned
    /\ superstep = 4
    /\ state.ragAccepted = JsBool(FALSE)
    /\ state.rejectionReason = DocumentsNotRelevant

\* C8: a workflow run never executes more nodes than the recursion limit of
\* 10 (it executes at most four), and when every awaited call settles a
\* started run returns.
C8_RunTerminates ==
    /\ [](type = WORKFLOW => superstep <= 4 /\ superstep < RecursionLimit)
    /\ (type = WORKFLOW /\ phase = "running") ~> (phase = "returned")

C8_Witness ==
    /\ WorkflowReturned
    /\ superstep = 4
    /\ now - startTime = 4

GeneratePromptSent == lastCall.request.messages[1].content

\* C9: the prompt Generate sends is the answer-synthesis prompt carrying the
\* whole content of every retrieved document exactly when ragAccepted is
\* true; otherwise it is the general-knowledge prompt without document
\* content, and it carries a rejection note only if a rejection reason was
\* recorded.
C9_GeneratePrompt ==
    (type = WORKFLOW /\ StepRan("generate")) =>
        IF state.ragAccepted = JsBool(TRUE)
        THEN /\ GeneratePromptSent.prompt = "context"
             /\ GeneratePromptSent.context =
                  [k \in 1..Len(state.retrievedDocs) |-> state.retrievedDocs[k].content]
             /\ Len(GeneratePromptSent.context) > 0
        ELSE /\ GeneratePromptSent.prompt = "general"
             /\ "context" \notin DOMAIN GeneratePromptSent
             /\ Len(GeneratePromptSent.rejectionNote) > 0 => Len(state.rejectionReason) > 0

C9_Witness ==
    /\ type = WORKFLOW /\ StepRan("generate")
    /\ state.ragAccepted = JsBool(TRUE)
    /\ \E k \in 1..Len(state.retrievedDocs) :
          Len(state.retrievedDocs[k].content) > GradeExcerptLen

(***************************************************************************)
(* Properties of both strategies                                           *)
(***************************************************************************)
\* the response contract of the data model: field names at every level and
\* the type of every field
ResultContract(r) ==
    /\ DOMAIN r = {"sessionId", "query", "answer", "explainability", "metadata"}
    /\ DOMAIN r.explainability =
         {"executionSteps", "decisionPoints", "retrievalDetails", "rejectionReason"}
    /\ \A k \in 1..Len(r.explainability.executionSteps) :
         DOMAIN r.explainability.executionSteps[k] = {"step", "timestamp", "details"}
    /\ DOMAIN r.explainability.decisionPoints = {"needsRAG", "ragAccepted", "retryCount"}
    /\ KindOf(r.explainability.decisionPoints.needsRAG) \in {"boolean", "null"}
    /\ KindOf(r.explainability.decisionPoints.ragAccepted) \in {"boolean", "null"}
    /\ r.explainability.decisionPoints.retryCount \in Int
    /\ KindOf(r.explainability.retrievalDetails) \in {"object", "null"}
    /\ KindOf(r.explainability.retrievalDetails) = "object" =>
         /\ DOMAIN r.explainability.retrievalDetails.v
              = {"searchQuery", "documentsFound", "topDocuments"}
         /\ KindOf(r.explainability.retrievalDetails.v.documentsFound) = "number"
    /\ KindOf(r.explainability.rejectionReason) = "string"
    /\ DOMAIN r.metadata = {"executionTimeMs", "timestamp", "workflowVersion", "agentType"}

\* C10: every result, of the workflow agent or of the React agent, has the
\* same fields with values of the same kinds: documentsFound is a number and
\* rejectionReason is a string whichever strategy ran.
C10_SameShape == phase = "returned" => ResultContract(result)
\* C16: the explainability of every workflow result has the decision
\* points needsRAG, ragAccepted and retryCount, with the values the run
\* ended with; it has retrieval details exactly when the retrieval stage
\* ran; the details give the search query, as documentsFound the number of
\* documents retrieved, and as topDocuments the scores of the first three
\* documents in the order retrieved, or of all when there are fewer
C16_ExplainabilityPayload ==
    WorkflowReturned =>
        LET explainability == result.explainability
            details == explainability.retrievalDetails
            docs == state.retrievedDocs
        IN  /\ DOMAIN explainability.decisionPoints = {"needsRAG", "ragAccepted", "retryCount"}
            /\ explainability.decisionPoints.needsRAG = state.needsRAG
            /\ explainability.decisionPoints.ragAccepted = state.ragAccepted
            /\ explainability.decisionPoints.retryCount = state.retryCount
            /\ (details # JsNull) <=> StepRan("retrieval")
            /\ (details # JsNull) <=> (Cardinality(CallsTo("searchDocuments")) = 1)
            /\ details # JsNull =>
                  /\ DOMAIN details.v = {"searchQuery", "documentsFound", "topDocuments"}
                  /\ details.v.searchQuery = state.searchQuery
                  /\ details.v.documentsFound = JsNumber(Len(docs))
                  /\ Len(details.v.topDocuments) = (IF Len(docs) < 3 THEN Len(docs) ELSE 3)
                  /\ \A n \in 1..Len(details.v.topDocuments) :
                        details.v.topDocuments[n] = [score |-> docs[n].score]

\* a run that retrieved four documents reports four found and the scores of
\* the first three
C16_Witness ==
    /\ WorkflowReturned
    /\ Len(state.retrievedDocs) = 4
    /\ result.explainability.retrievalDetails.v.documentsFound = JsNumber(4)
    /\ result.explainability.retrievalDetails.v.topDocuments
          = << [score |-> Score(1)], [score |-> Score(2)], [score |-> Score(3)] >>

(***************************************************************************)
(* Properties of the results of both strategies                            *)
(***************************************************************************)
\* the result execute would build from what the run ended in, were it built
\* at the given time
ResultBuiltAt(clock) ==
    IF type = WORKFLOW
    THEN WorkflowResult(state, userQuery, startTime, clock, type)
    ELSE ReactResult(LastMessage.content, uuidCounter + 1, userQuery, startTime, clock)

\* C11: shaping the state a run ended in into a result a second time, one
\* tick later, yields the explainability and the answer of the result that
\* was returned, for the workflow and for the React agent (the metadata is
\* not compared)
C11_NormalizationIdempotent ==
    phase = "returned" =>
        /\ ResultBuiltAt(now + 1).explainability = result.explainability
        /\ ResultBuiltAt(now + 1).answer = result.answer

(***************************************************************************)
(* Properties of the router                                                *)
(***************************************************************************)
\* the executions a request has started
Executions == {ThisRun} \cup (IF parked.phase = "none" THEN {} ELSE {parked})
\* the session identifiers an execution holds: in the state of its graph
\* once it has one, and in its result
SessionIdsOf(run) ==
    (IF run.type = WORKFLOW /\ run.phase # "idle" THEN {run.state.sessionId} ELSE {}) \cup
    (IF "sessionId" \in DOMAIN run.result THEN {run.result.sessionId} ELSE {})
SessionIds == UNION {SessionIdsOf(run) : run \in Executions}
BothReturned == req.route = COMPARE /\ phase = "returned" /\ parked.phase = "returned"

\* C12: when the comparison has run both agents on the query, the two
\* results name different agent types in their metadata and carry different
\* sessionIds; and every sessionId that comes into being in any execution
\* is an identifier uuidv4 handed out in that very step
C12_FreshSessionIds ==
    /\ [](BothReturned =>
            /\ RunOf(WORKFLOW).result.query = RunOf(REACT).result.query
            /\ RunOf(WORKFLOW).result.metadata.agentType
                 # RunOf(REACT).result.metadata.agentType
            /\ RunOf(WORKFLOW).result.sessionId # RunOf(REACT).result.sessionId)
    /\ [][(SessionIds' \ SessionIds) \subseteq ((uuidCounter + 1)..uuidCounter')]_vars

\* both agents returned a result for the comparison and it was answered
C12_Witness ==
    /\ BothReturned
    /\ Len(responses) = 1
    /\ responses[1].status = 200
    /\ responses[1].json.comparison.workflow.sessionId = 2
    /\ responses[1].json.comparison.react.sessionId = 3

\* C13: the comparison starts the workflow agent's and the React agent's
\* execution together, on the query of the request: once one has started
\* both have, with the same start time; it answers with results
\* only when both executions have returned, and the answer holds the result
\* of each; it answers without results only when an execution has thrown;
\* and a step of one execution leaves the locals of the other as they were:
\* they change hands only when the other execution's callback runs
C13_FanOutFanIn ==
    /\ []((req.route = COMPARE /\ phase # "idle") =>
            /\ {run.type : run \in Executions} = AGENT_TYPES
            /\ \A run \in Executions :
                  /\ run.phase \in {"running", "returned", "threw"}
                  /\ run.userQuery = req.body.query.v
                  /\ run.startTime = receivedAt)
    /\ []((req.route = COMPARE /\ Len(responses) > 0 /\ responses[1].status # 400) =>
            \/ /\ responses[1].status = 200
               /\ BothReturned
               /\ responses[1].json.comparison.workflow = RunOf(WORKFLOW).result
               /\ responses[1].json.comparison.react = RunOf(REACT).result
            \/ /\ responses[1].status = 500
               /\ \E run \in Executions : run.phase = "threw")
    /\ [][\/ parked' = parked
          \/ handler = "handler"
          \/ parked' = ThisRun /\ ThisRun' = parked]_vars

\* the comparison was answered with both results after the React agent's
\* steps ran in between the workflow's: the workflow took longer than its
\* own three service calls
C13_Witness ==
    /\ BothReturned
    /\ Len(responses) = 1
    /\ responses[1].status = 200
    /\ Len(RunOf(WORKFLOW).calls) = 3
    /\ Len(RunOf(REACT).calls) = 1
    /\ RunOf(WORKFLOW).result.metadata.executionTimeMs > 3
    /\ RunOf(REACT).result.metadata.executionTimeMs
          < RunOf(WORKFLOW).result.metadata.executionTimeMs

\* a query validateQuery is to turn away: none, no string, or a string of
\* nothing but white space
Unacceptable(query) ==
    \/ query.t # "string"
    \/ \A k \in 1..Len(query.v) : query.v[k] \in WhitespaceChars

\* a text is another one without the white space at its ends
Trimmed(text, from) ==
    \E i, j \in 1..Len(from) :
        /\ text = SubSeq(from, i, j)
        /\ from[i] \notin WhitespaceChars /\ from[j] \notin WhitespaceChars
        /\ \A k \in 1..Len(from) : (k < i \/ k > j) => from[k] \in WhitespaceChars

\* C17: on every query route, a request whose query is missing, is no
\* string or holds only white space is answered 400 by validateQuery and
\* starts no execution; any other query is passed on without the white
\* space at its ends; and whenever an execution has started, validateQuery
\* had passed the request on and the execution was given the request's
\* query, which is not empty and has no white space at either end
C17_QueryValidated ==
    /\ [][handler = "validateQuery" =>
            IF Unacceptable(req.body.query)
            THEN /\ responses' = << [status |-> 400,
                                      json |-> [error |-> "Invalid request",
                                                message |-> InvalidRequestMessage,
                                                timestamp |-> now]] >>
                 /\ handler' = "done"
                 /\ phase' = "idle" /\ parked' = NoRun
            ELSE /\ responses' = << >>
                 /\ handler' = "handler"
                 /\ req'.body.query.t = "string"
                 /\ Trimmed(req'.body.query.v, req.body.query.v)]_vars
    /\ []((handler = "done" /\ responses[1].status = 400) =>
            phase = "idle" /\ parked = NoRun /\ calls = << >>)
    /\ [](\A run \in Executions :
            run.phase # "idle" =>
               /\ handler \in {"awaiting", "done"}
               /\ run.userQuery = req.body.query.v
               /\ Len(run.userQuery) > 0
               /\ run.userQuery[1] \notin WhitespaceChars
               /\ run.userQuery[Len(run.userQuery)] \notin WhitespaceChars)

\* the comparison route turned a blank query away
C17_Witness ==
    /\ req.route = COMPARE
    /\ req.body.query = JsString(BlankText)
    /\ handler = "done"
    /\ responses[1].status = 400
    /\ phase = "idle"

(***************************************************************************)
(* Properties of the React strategy                                        *)
(***************************************************************************)
IsToolMessage(m) == m.role = "tool"
ToolMessages == SelectSeq(reactMessages, IsToolMessage)
ServiceOfTool(name) ==
    IF name = SEARCH_DOCUMENTS THEN "searchDocuments" ELSE "generateCompletion"
ErrorTextOfTool(name) ==
    IF name = SEARCH_DOCUMENTS THEN "Error searching documents" ELSE "Error evaluating documents"
ToolFailedLast ==
    /\ type = REACT /\ phase = "running"
    /\ Len(reactMessages) > 0 /\ LastMessage.role = "tool"
    /\ ~calls[Len(calls)].ok

\* C14: in the React loop every run of a tool ends in a tool message for
\* the model and leaves execute running; the message of a tool whose
\* service call failed is the tool's error text with the error's message,
\* and that of a tool whose call succeeded is not; execute throws only for
\* a failed call of the loop's model; and after a failed tool the loop goes
\* on to its end
C14_ToolFailureIsText ==
    /\ [](type = REACT =>
            /\ Len(ToolMessages) = Len(calls)
            /\ \A k \in 1..Len(calls) :
                  /\ calls[k].service = ServiceOfTool(ToolMessages[k].name)
                  /\ calls[k].ok <=>
                        ToolMessages[k].content.text # ErrorTextOfTool(ToolMessages[k].name)
                  /\ ~calls[k].ok <=> "message" \in DOMAIN ToolMessages[k].content
            /\ phase = "threw" => error.cause = "Model call failed")
    /\ [][(type = REACT /\ Len(reactMessages) > 0 /\ "tool_call" \in DOMAIN LastMessage) =>
            /\ phase' = "running"
            /\ error' = NoError
            /\ Len(reactMessages') = Len(reactMessages) + 1
            /\ reactMessages'[Len(reactMessages')].role = "tool"
            /\ ~lastCall'.outcome.ok =>
                  reactMessages'[Len(reactMessages')].content.message = lastCall'.outcome.error]_vars
    /\ (ToolFailedLast ~> (type = REACT /\ phase \in {"returned", "threw"}))

\* the loop's search failed and the loop went on to an answer
C14_Witness ==
    /\ type = REACT /\ phase = "returned"
    /\ Len(calls) = 1
    /\ calls[1].service = "searchDocuments" /\ ~calls[1].ok
    /\ ToolMessages[1].content.text = "Error searching documents"
    /\ Len(result.answer) > 0

\* C15: an execution of the React agent ends in one of two ways. Either it
\* returns a result, and then the result has an answer, which is the content
\* of the loop's last message, a message of the model that calls no tool
\* (the content may be the empty text: execute passes it on as it is), and
\* nothing was thrown; or it throws 'Agent execution failed' and returns no
\* result. Before that there is neither a result nor an error, and every
\* execution that has started comes to one of the two ends
C15_AnswerOrFailure ==
    /\ []((type = REACT /\ phase = "returned") =>
            /\ "answer" \in DOMAIN result
            /\ LastMessage.role = "ai"
            /\ "tool_call" \notin DOMAIN LastMessage
            /\ result.answer = LastMessage.content
            /\ error = NoError)
    /\ []((type = REACT /\ phase = "threw") =>
            /\ result = NoResult
            /\ error.message = "Agent execution failed")
    /\ []((type = REACT /\ phase \in {"idle", "running"}) =>
            result = NoResult /\ error = NoError)
    /\ ((type = REACT /\ phase = "running") ~> (phase \in {"returned", "threw"}))

\* the loop evaluated documents and then answered; execute returned the
\* answer
C15_Witness ==
    /\ type = REACT /\ phase = "returned"
    /\ Len(ToolMessages) = 1
    /\ ToolMessages[1].name = EVALUATE_DOCUMENTS
    /\ Len(reactMessages) = 4
    /\ result.answer = reactMessages[4].content
    /\ Includes(result.answer, ADOBE)

(***************************************************************************)
(* Properties of the MarketingAgent                                        *)
(***************************************************************************)
\* an argument that is null, undefined, or a text of white space alone
\* (the empty text included)
MissingOrBlank(value) ==
    \/ value \in {JsNull, JsUndefined}
    \/ value.t = "string" /\ \A k \in 1..Len(value.v) : value.v[k] \in WhitespaceChars

\* C18: setSystemPrompt with a prompt that is null, undefined, empty or
\* white space alone throws 'System prompt cannot be empty' and leaves the
\* prompts as they were; with any other prompt it returns, and
\* getSystemPrompt of that instance then returns the prompt as it was given,
\* the white space at its ends included
C18_SetSystemPrompt ==
    /\ [][settled'.method = "setSystemPrompt" =>
            LET i == settled'.instance
                prompt == settled'.argument
            IN  IF MissingOrBlank(prompt)
                THEN /\ settled'.how = "threw"
                     /\ settled'.message = "System prompt cannot be empty"
                     /\ systemPrompt' = systemPrompt
                ELSE /\ settled'.how = "returned"
                     /\ GetSystemPrompt(systemPrompt', i) = prompt.v]_vars
    /\ [][(/\ settled.method = "setSystemPrompt" /\ settled.how = "returned"
           /\ settled'.method = "getSystemPrompt"
           /\ settled'.instance = settled.instance) =>
              /\ settled'.how = "returned"
              /\ settled'.value = settled.argument.v]_vars

\* an instance was given a prompt with white space at its ends, and a later
\* setSystemPrompt of white space alone threw and left that prompt
C18_Witness ==
    /\ settled.method = "setSystemPrompt"
    /\ settled.how = "threw"
    /\ settled.argument = JsString(BlankText)
    /\ systemPrompt[settled.instance] = PaddedTone

\* C19: generateMarketingContent with a query that is null, undefined, empty
\* or white space alone rejects with 'User query cannot be empty' and does
\* not call the model; with any other query it calls the model once, with
\* the instance's system prompt and the query as given, and when the model
\* answers it resolves to the content of the model's message
C19_GenerateMarketingContent ==
    [][settled'.method = "generateMarketingContent" =>
         LET i == settled'.instance
             query == settled'.argument
             outcome == settled'.outcome
         IN  IF MissingOrBlank(query)
             THEN /\ outcome.how = "threw"
                  /\ outcome.message = "User query cannot be empty"
                  /\ outcome.invoked = << >>
                  /\ llmCalls' = llmCalls
             ELSE /\ llmCalls' = llmCalls + 1
                  /\ outcome.invoked =
                        << << [role |-> "system", content |-> systemPrompt[i]],
                              [role |-> "user", content |-> query.v] >> >>
                  /\ settled'.response.ok =>
                        /\ outcome.how = "returned"
                        /\ outcome.value = settled'.response.content]_vars

\* an instance whose prompt was set answered a query with the content of
\* the model's message, after one call of the model
C19_Witness ==
    /\ settled.method = "generateMarketingContent"
    /\ settled.argument = JsString(TestQuery)
    /\ settled.outcome.how = "returned"
    /\ settled.outcome.value = MockedResponse
    /\ settled.outcome.invoked[1][1].content = ConservativeTone
    /\ llmCalls = 1

\* C20: setSystemPrompt of one instance leaves what getSystemPrompt of every
\* other instance returns; generateMarketingContent, whatever its outcome,
\* and the construction of a further instance leave what getSystemPrompt of
\* every instance returns
C20_IndependentInstances ==
    /\ [][settled'.method = "setSystemPrompt" =>
            \A j \in (1..Len(systemPrompt)) \ {settled'.instance} :
                GetSystemPrompt(systemPrompt', j) = GetSystemPrompt(systemPrompt, j)]_vars
    /\ [][settled'.method \in {"generateMarketingContent", "constructor"} =>
            \A j \in 1..Len(systemPrompt) :
                GetSystemPrompt(systemPrompt', j) = GetSystemPrompt(systemPrompt, j)]_vars

\* two instances were given different prompts and keep them after the calls
\* of generateMarketingContent
C20_Witness ==
    /\ Len(systemPrompt) = 2
    /\ systemPrompt[1] = ConservativeTone
    /\ systemPrompt[2] = PaddedTone
    /\ settled.method = "generateMarketingContent"
    /\ llmCalls = 2

(***************************************************************************)
(* Properties of the MarketingContentEvaluator                             *)
(***************************************************************************)
ScoreFields ==
    {"quality_score", "clarity_score", "engagement_score", "platform_appropriateness"}

\* a score the model gave that is missing or null, a text that is no number,
\* or a number below 1 or above 5
MissingOrOutOfRange(score) ==
    \/ score \in {JsUndefined, JsNull}
    \/ score.t = "string" /\ \E k \in 1..Len(score.v) :
            score.v[k] \notin WhitespaceChars /\ score.v[k] \notin {"."}
            /\ IndexOf(score.v[k], DigitChars) = 0
    \/ score.t = "number" /\ (score.h < 100 \/ score.h > 500)

\* C21: each of the four scores of an evaluation result is one of 1, 2, 3, 4,
\* 5, whatever the model's message was; the four are 3 when the message holds
\* no JSON object or one that does not parse, and a score is 3 when the
\* model's score is missing, is no number or lies outside 1..5; a number
\* between 1 and 5 becomes the nearest whole number, halves going up
C21_ScoresInRange ==
    evaluation.how = "returned" =>
        \A field \in ScoreFields :
            /\ evaluation.value[field] \in 1..5
            /\ evaluation.response.json # "object" => evaluation.value[field] = 3
            /\ evaluation.response.json = "object" =>
                 LET score == evaluation.response.parsed[field] IN
                 /\ MissingOrOutOfRange(score) => evaluation.value[field] = 3
                 /\ (score.t = "number" /\ ~MissingOrOutOfRange(score)) =>
                        /\ 100 * evaluation.value[field] - score.h <= 50
                        /\ score.h - 100 * evaluation.value[field] < 50

\* the model gave a score above 5, a score that is no number, no quality
\* score, and 2.5 for engagement
C21_Witness ==
    /\ evaluation.how = "returned"
    /\ evaluation.response.json = "object"
    /\ evaluation.response.parsed.quality_score = JsUndefined
    /\ evaluation.response.parsed.clarity_score = JsDecimal(501)
    /\ evaluation.response.parsed.engagement_score = JsDecimal(250)
    /\ evaluation.response.parsed.platform_appropriateness = JsString(<< "a", "b", "c" >>)
    /\ evaluation.value.quality_score = 3
    /\ evaluation.value.clarity_score = 3
    /\ evaluation.value.engagement_score = 3
    /\ evaluation.value.platform_appropriateness = 3

(***************************************************************************)
(* Properties of the stages of the workflow                                *)
(***************************************************************************)
\* two characters are the same letter, in whatever case
SameLetter(a, b) ==
    \/ a = b
    \/ \E n \in 1..Len(UpperChars) : {a, b} = {UpperChars[n], LowerChars[n]}

\* the text holds the word somewhere, the case of the letters set aside
ContainsIgnoringCase(text, word) ==
    \E i \in 0..(Len(text) - Len(word)) :
        \A k \in 1..Len(word) : SameLetter(text[i + k], word[k])

StageRuns(node) == type = WORKFLOW /\ phase = "running" /\ node \in activeNodes

\* C22: when the Analyze stage runs it asks the completion service its
\* analysis question, and it leaves needsRAG true if the call succeeded and
\* the text it gave holds "retrieve" in whatever case, and false otherwise,
\* a failed call included
C22_AnalyzeDecision ==
    [][StageRuns("agent") =>
         /\ lastCall'.service = "generateCompletion"
         /\ lastCall'.request.messages[1].content.prompt = "analysis"
         /\ state'.needsRAG =
              JsBool(/\ lastCall'.outcome.ok
                     /\ ContainsIgnoringCase(lastCall'.outcome.value,
                                             << "r", "e", "t", "r", "i", "e", "v", "e" >>))]_vars

\* the completion service answered 'Retrieve.' and the stage decided to
\* retrieve
C22_Witness ==
    /\ type = WORKFLOW /\ phase = "running"
    /\ Len(calls) = 1
    /\ lastCall.outcome.ok
    /\ lastCall.outcome.value = << "R", "e", "t", "r", "i", "e", "v", "e", "." >>
    /\ state.needsRAG = JsBool(TRUE)
    /\ activeNodes = {"retrieve"}

\* C23: when the Grade stage runs with at least one retrieved document it
\* asks the completion service its grading question, and it leaves
\* ragAccepted true if the call succeeded and the text it gave holds "yes" in
\* whatever case; otherwise it leaves ragAccepted false with a reason, and in
\* both cases the run goes on to generate
C23_GradeDecision ==
    [][(StageRuns("grade_documents") /\ Len(state.retrievedDocs) > 0) =>
         /\ lastCall'.service = "generateCompletion"
         /\ lastCall'.request.messages[1].content.prompt = "grade"
         /\ state'.ragAccepted =
              JsBool(/\ lastCall'.outcome.ok
                     /\ ContainsIgnoringCase(lastCall'.outcome.value, << "y", "e", "s" >>))
         /\ state'.ragAccepted = JsBool(FALSE) => Len(state'.rejectionReason) > 0
         /\ activeNodes' = {"generate"}
         /\ phase' = "running"]_vars

\* the completion service answered ' Yes' and a line end, and the stage
\* accepted the documents
C23_Witness ==
    /\ type = WORKFLOW /\ phase = "running"
    /\ Len(calls) = 3
    /\ lastCall.outcome.ok
    /\ lastCall.outcome.value = << " ", "Y", "e", "s", "\n" >>
    /\ state.ragAccepted = JsBool(TRUE)
    /\ Len(state.retrievedDocs) > 0
    /\ activeNodes = {"generate"}

\* what searchDocuments gives the Retrieve stage when the index fails, and
\* when it finds nothing
SearchFailed == SearchDocuments([ok |-> FALSE])
SearchFoundNothing == SearchDocuments([ok |-> TRUE, results |-> << >>])

\* C24: whenever the Retrieve stage runs, a failing search and a search that
\* finds nothing leave the same state behind, so that everything after
\* the stage is the same; and a run whose retrieval left no document returns,
\* whether the search failed or not, the same decision points, rejection
\* reason, step names and retrieval details and sent Generate the same
\* general-knowledge prompt
C24_FailureAsNoDocuments ==
    /\ StageRuns("retrieve") =>
          ApplyUpdate(state, RetrieveNode(state, now, SearchFailed))
            = ApplyUpdate(state, RetrieveNode(state, now, SearchFoundNothing))
    /\ (WorkflowReturned /\ RetrievedNothing) =>
          LET explainability == result.explainability IN
          /\ explainability.decisionPoints =
                [needsRAG |-> JsBool(TRUE), ragAccepted |-> JsBool(FALSE), retryCount |-> 0]
          /\ explainability.rejectionReason = JsString(NoDocumentsRetrieved)
          /\ StepNames(explainability.executionSteps) =
                << "agent_analysis", "retrieval", "grade_documents", "generate" >>
          /\ explainability.retrievalDetails =
                JsObject([searchQuery |-> userQuery, documentsFound |-> JsNumber(0),
                          topDocuments |-> << >>])
          /\ GeneratePromptSent =
                [prompt |-> "general", question |-> userQuery,
                 rejectionNote |-> RejectionNotePrefix
                                   \o ToLowerCase(NoDocumentsRetrieved)
                                   \o RejectionNoteSuffix]

\* a run whose search failed has returned
C24_Witness ==
    /\ WorkflowReturned
    /\ Cardinality(CallsTo("searchDocuments")) = 1
    /\ FailedCalls("searchDocuments") = CallsTo("searchDocuments")
    /\ StepNames(result.explainability.executionSteps) =
          << "agent_analysis", "retrieval", "grade_documents", "generate" >>
    /\ result.explainability.retrievalDetails.v.documentsFound = JsNumber(0)

WorkflowNodes == {"agent", "retrieve", "grade_documents", "generate"}

\* the name of the step a node records
StepOfNode(node) ==
    CASE node = "agent" -> "agent_analysis"
      [] node = "retrieve" -> "retrieval"
      [] node = "grade_documents" -> "grade_documents"
      [] node = "generate" -> "generate"

IsPrefix(shorter, longer) ==
    /\ Len(shorter) <= Len(longer)
    /\ SubSeq(longer, 1, Len(shorter)) = shorter

\* C25: a stage that runs, whatever its service call gives, leaves the steps
\* there were, in their order, followed by exactly one new step, its own; no
\* step of a run changes or drops a step that was recorded, and the result
\* carries the steps as they were recorded
C25_OneStepPerStage ==
    /\ [][\A node \in WorkflowNodes : StageRuns(node) =>
            /\ Len(state'.executionSteps) = Len(state.executionSteps) + 1
            /\ IsPrefix(state.executionSteps, state'.executionSteps)
            /\ state'.executionSteps[Len(state'.executionSteps)].step = StepOfNode(node)]_vars
    /\ [][(type = WORKFLOW /\ phase = "running") =>
            IsPrefix(state.executionSteps, state'.executionSteps)]_vars
    /\ [](WorkflowReturned =>
            result.explainability.executionSteps = state.executionSteps)

\* every service call of a run failed, and each of the two stages that ran
\* recorded its step
C25_Witness ==
    /\ WorkflowReturned
    /\ Len(calls) = 2
    /\ FailedCalls("generateCompletion") = {1, 2}
    /\ StepNames(state.executionSteps) = << "agent_analysis", "generate" >>

\* the fields of the state that the stages decide
DecisionFields == {"needsRAG", "searchQuery", "ragAccepted", "rejectionReason", "finalAnswer"}

\* the node that writes a field
WriterOf(field) ==
    CASE field \in {"needsRAG", "searchQuery"} -> "agent"
      [] field \in {"ragAccepted", "rejectionReason"} -> "grade_documents"
      [] field = "finalAnswer" -> "generate"

\* C26: in a run of the workflow a decided field changes only in the step of
\* the stage that writes it (needsRAG in Analyze, ragAccepted in Grade,
\* finalAnswer in Generate), and only from the value the run started with;
\* needsRAG is true or false once Analyze ran and null before, ragAccepted is
\* true or false once Grade ran and null before, and finalAnswer is written
\* by the one Generate step of the run
C26_DecisionsSetOnce ==
    /\ [][(type = WORKFLOW /\ phase = "running") =>
            \A field \in DecisionFields :
                state'[field] # state[field] =>
                    /\ StageRuns(WriterOf(field))
                    /\ state[field] = AgenticRAGState(0)[field]]_vars
    /\ [][StageRuns("generate") =>
            /\ ~StepRan("generate")
            /\ state.finalAnswer = EmptyText
            /\ state'.finalAnswer # EmptyText]_vars
    /\ []((type = WORKFLOW /\ phase # "idle") =>
            /\ KindOf(state.needsRAG) = (IF StepRan("agent_analysis") THEN "boolean" ELSE "null")
            /\ KindOf(state.ragAccepted) = (IF StepRan("grade_documents") THEN "boolean" ELSE "null")
            /\ (state.finalAnswer # EmptyText) <=> StepRan("generate"))
    /\ [](WorkflowReturned =>
            /\ Cardinality({k \in 1..Len(state.executionSteps) :
                              state.executionSteps[k].step = "generate"}) = 1
            /\ result.answer = state.finalAnswer
            /\ result.explainability.decisionPoints.needsRAG = state.needsRAG
            /\ result.explainability.decisionPoints.ragAccepted = state.ragAccepted)

\* a run decided to retrieve, accepted the documents and answered
C26_Witness ==
    /\ WorkflowReturned
    /\ state.needsRAG = JsBool(TRUE)
    /\ state.ragAccepted = JsBool(TRUE)
    /\ state.rejectionReason = EmptyText
    /\ Len(state.finalAnswer) > 0
    /\ Len(state.executionSteps) = 4

\* C27: execute gives the run a session identifier that uuidv4 hands out in
\* that step and the query it was called with; no step of the run changes
\* either, whatever the services do; and the result names that session
\* identifier and that query
C27_SessionAndQueryKept ==
    /\ [][(type = WORKFLOW /\ phase = "idle" /\ phase' = "running") =>
            /\ state'.sessionId \in (uuidCounter + 1)..uuidCounter'
            /\ state'.userQuery = userQuery'
            /\ userQuery' \in Queries]_vars
    /\ [][(type = WORKFLOW /\ phase = "running") =>
            /\ state'.sessionId = state.sessionId
            /\ state'.userQuery = state.userQuery
            /\ userQuery' = userQuery]_vars
    /\ [](WorkflowReturned =>
            /\ result.sessionId = state.sessionId
            /\ result.query = userQuery
            /\ result.query = state.userQuery)

\* a run in which a completion call failed returned
\* its session identifier and its query
C27_Witness ==
    /\ WorkflowReturned
    /\ result.sessionId = uuidCounter
    /\ result.query = QueryAdobe
    /\ FailedCalls("generateCompletion") # {}
    /\ Len(state.executionSteps) = 2

\* C28: in a run of the workflow searchQuery is the query of the run once
\* Analyze decided to retrieve and the empty text otherwise, also when the
\* analysis call failed; the result's retrieval details name that query; and
\* every search the workflow asks for is a search for the query of the run
C28_SearchQueryIsUserQuery ==
    /\ []((type = WORKFLOW /\ phase # "idle") =>
            /\ state.searchQuery = (IF state.needsRAG = JsBool(TRUE) THEN userQuery
                                                                    ELSE EmptyText)
            /\ (StepRan("agent_analysis") /\ 1 \in FailedCalls("generateCompletion")) =>
                    state.searchQuery = EmptyText)
    /\ [](WorkflowReturned =>
            /\ result.explainability.retrievalDetails # JsNull =>
                  result.explainability.retrievalDetails.v.searchQuery = userQuery
            /\ (result.explainability.retrievalDetails # JsNull)
                  <=> (state.searchQuery # EmptyText))
    /\ [][(type = WORKFLOW /\ Len(calls') > Len(calls)
           /\ lastCall'.service = "searchDocuments") =>
            /\ StageRuns("retrieve")
            /\ lastCall'.request.query = userQuery
            /\ lastCall'.request.query = state.searchQuery]_vars

\* a run searched for its query
C28_Witness ==
    /\ WorkflowReturned
    /\ userQuery = QueryAdobe
    /\ state.searchQuery = QueryAdobe
    /\ Cardinality(CallsTo("searchDocuments")) = 1
    /\ result.explainability.retrievalDetails.v.searchQuery = QueryAdobe

\* how often a step of the given name was recorded
TimesRan(name) ==
    Cardinality({k \in 1..Len(state.executionSteps) : state.executionSteps[k].step = name})

\* C29: in a run of the workflow every stage runs at most once, the search
\* service is called at most once, the graph makes at most four node
\* executions, and retryCount stays 0 up to the result, whatever maxRetries
\* was given and whether the retrieval failed, was empty, was rejected or was
\* accepted
C29_NoRetry ==
    type = WORKFLOW =>
        /\ \A node \in WorkflowNodes : TimesRan(StepOfNode(node)) <= 1
        /\ Cardinality(CallsTo("searchDocuments")) <= 1
        /\ superstep <= 4
        /\ state.retryCount = 0
        /\ phase = "returned" => result.explainability.decisionPoints.retryCount = 0

\* a run that was allowed retries and whose documents were rejected returned
\* after one retrieval
C29_Witness ==
    /\ WorkflowReturned
    /\ state.maxRetries = MaxRetriesOpt
    /\ state.ragAccepted = JsBool(FALSE)
    /\ Len(state.retrievedDocs) > 0
    /\ TimesRan("retrieval") = 1
    /\ result.explainability.decisionPoints.retryCount = 0

\* the values maxRetries has in an initial state: -1 when the option is
\* absent
MaxRetriesValues == {-1} \cup (0..MaxRetriesOpt)

\* the update a node makes of state s when its call gives the outcome
NodeUpdate(node, s, clock, outcome) ==
    CASE node = "agent" -> AgentNode(s, clock, outcome)
      [] node = "retrieve" -> RetrieveNode(s, clock, outcome)
      [] node = "grade_documents" -> GradeDocumentsNode(s, clock, outcome)
      [] node = "generate" -> GenerateNode(s, clock, outcome)

\* what a node asks of its service in state s
RequestOf(node, s) ==
    CASE node = "agent" -> CompletionRequest(AnalysisPrompt(s), 1, 10)
      [] node = "retrieve" -> SearchRequest(s.searchQuery)
      [] node = "grade_documents" -> CompletionRequest(GradePrompt(s), 1, 5)
      [] node = "generate" -> CompletionRequest(GenerationPrompt(s), 7, 2000)

\* what the call of a node may give
OutcomesOf(node, s) ==
    IF node = "retrieve"
    THEN {SearchDocuments(response) : response \in SearchResponses(SearchTop)}
    ELSE IF node = "grade_documents" /\ Len(s.retrievedDocs) = 0
    THEN {NoCall}
    ELSE {GenerateCompletion(response) : response \in CompletionResponses}

WithMaxRetries(s, m) == [s EXCEPT !.maxRetries = m]

\* C30: two runs that differ in maxRetries alone stay alike step by step.
\* Their initial states differ in maxRetries alone and schedule the same
\* node; in every state a run reaches, the same state with another
\* maxRetries makes every scheduled node ask the same of its service, and
\* for every outcome leaves the same state but for maxRetries and schedules
\* the same nodes; and execute builds the same result from both, so answer,
\* steps and decision points are the same
C30_MaxRetriesIgnored ==
    /\ \A query \in Queries, o1 \in OptionsSet, o2 \in OptionsSet :
          LET s1 == ApplyUpdate(AgenticRAGState(1), InitialState(2, query, o1))
              s2 == ApplyUpdate(AgenticRAGState(1), InitialState(2, query, o2))
          IN  /\ WithMaxRetries(s1, s2.maxRetries) = s2
              /\ Successors(START, s1) = Successors(START, s2)
    /\ (type = WORKFLOW /\ phase # "idle") =>
          \A m \in MaxRetriesValues :
              LET other == WithMaxRetries(state, m) IN
              /\ \A node \in activeNodes :
                    /\ RequestOf(node, other) = RequestOf(node, state)
                    /\ OutcomesOf(node, other) = OutcomesOf(node, state)
                    /\ \A outcome \in OutcomesOf(node, state) :
                          LET after == ApplyUpdate(state, NodeUpdate(node, state, now, outcome))
                              afterOther ==
                                  ApplyUpdate(other, NodeUpdate(node, other, now, outcome))
                          IN  /\ afterOther = WithMaxRetries(after, m)
                              /\ Successors(node, afterOther) = Successors(node, after)
              /\ WorkflowResult(other, userQuery, startTime, now, type)
                    = WorkflowResult(state, userQuery, startTime, now, type)
              /\ phase = "returned" =>
                    result = WorkflowResult(other, userQuery, startTime,
                                            result.metadata.timestamp, type)

\* a run that was given the largest maxRetries returned, after an accepted
\* retrieval, the result a run without the option returns
C30_Witness ==
    /\ WorkflowReturned
    /\ state.maxRetries = MaxRetriesOpt
    /\ state.ragAccepted = JsBool(TRUE)
    /\ result = WorkflowResult(WithMaxRetries(state, -1), userQuery, startTime, now, type)
    /\ Len(result.answer) > 0

(***************************************************************************)
(* Properties of the paths of the workflow                                 *)
(***************************************************************************)
\* the services called in a run, in their order
ServicesCalled == [k \in 1..Len(calls) |-> calls[k].service]

\* C31: a run of the workflow that returned has called, when Analyze decided
\* to generate, the completion service twice and the search service never;
\* when the retrieval left no document, the completion service, the search
\* service and the completion service again, Grade asking nothing; and when
\* documents were retrieved, the completion service, the search service and
\* the completion service twice
C31_SkippedWorkIsSkipped ==
    WorkflowReturned =>
        /\ state.needsRAG = JsBool(FALSE) =>
              ServicesCalled = << "generateCompletion", "generateCompletion" >>
        /\ RetrievedNothing =>
              ServicesCalled = << "generateCompletion", "searchDocuments", "generateCompletion" >>
        /\ Len(state.retrievedDocs) > 0 =>
              ServicesCalled = << "generateCompletion", "searchDocuments",
                                  "generateCompletion", "generateCompletion" >>
        /\ \/ state.needsRAG = JsBool(FALSE)
           \/ RetrievedNothing
           \/ Len(state.retrievedDocs) > 0

\* a search that succeeded found nothing, and the run made three calls
C31_Witness ==
    /\ WorkflowReturned /\ RetrievedNothing
    /\ FailedCalls("searchDocuments") = {}
    /\ Len(calls) = 3
    /\ StepNames(state.executionSteps) =
          << "agent_analysis", "retrieval", "grade_documents", "generate" >>


\* C32: in every final state of the workflow, and in the result made of it,
\* ragAccepted is false exactly when the rejection reason is not empty: a
\* rejection carries a reason, and a retrieval that was accepted or never
\* graded carries none
C32_RejectionHasReason ==
    WorkflowReturned =>
        /\ state.ragAccepted = JsBool(FALSE) <=> Len(state.rejectionReason) > 0
        /\ result.explainability.decisionPoints.ragAccepted = JsBool(FALSE)
             <=> result.explainability.rejectionReason # JsString(EmptyText)
        /\ state.ragAccepted = JsNull <=> ~StepRan("grade_documents")

\* the grade of documents that were retrieved failed, and the run returned
C32_Witness ==
    /\ WorkflowReturned
    /\ Len(state.retrievedDocs) > 0
    /\ result.explainability.decisionPoints.ragAccepted = JsBool(FALSE)
    /\ result.explainability.rejectionReason = JsString(ErrorEvaluatingRelevance)

\* the completion call of the grade_documents node failed: with documents
\* retrieved it is the third call of the run
GradeCallFailed ==
    /\ type = WORKFLOW /\ StepRan("grade_documents")
    /\ Len(state.retrievedDocs) > 0
    /\ Len(calls) >= 3 /\ ~calls[3].ok

\* C33: when the completion call of Grade fails with documents present, the
\* run does not fail: ragAccepted is false with the reason 'Error evaluating
\* document relevance', the step of Grade is recorded with the number of
\* documents, the only stage that follows is Generate, and Generate sends the
\* general-knowledge prompt, noting the reason, without document content
C33_GradeFailureAbsorbed ==
    GradeCallFailed =>
        /\ phase \in {"running", "returned"}
        /\ state.ragAccepted = JsBool(FALSE)
        /\ state.rejectionReason = ErrorEvaluatingRelevance
        /\ SubSeq(StepNames(state.executionSteps), 1, 3) =
              << "agent_analysis", "retrieval", "grade_documents" >>
        /\ state.executionSteps[3].details = [docCount |-> Len(state.retrievedDocs)]
        /\ ~StepRan("generate") => phase = "running" /\ activeNodes = {"generate"}
        /\ StepRan("generate") =>
              /\ Len(calls) = 4
              /\ lastCall.request.options.temperature = 7
              /\ GeneratePromptSent =
                    [prompt |-> "general", question |-> userQuery,
                     rejectionNote |-> RejectionNotePrefix
                                       \o ToLowerCase(ErrorEvaluatingRelevance)
                                       \o RejectionNoteSuffix]

\* the run returned after a failed grade, Generate having been answered
C33_Witness ==
    /\ GradeCallFailed /\ WorkflowReturned
    /\ calls[4].ok
    /\ StepNames(result.explainability.executionSteps) =
          << "agent_analysis", "retrieval", "grade_documents", "generate" >>

\* C37: the answer of every result of the workflow is a text that is not
\* empty: the completion service gives 'No response generated' for a response
\* without a choice or with an empty content, Generate gives the fallback
\* text when the call fails, and the answer is otherwise the completion
C37_AnswerNeverEmpty ==
    /\ \A response \in CompletionResponses :
          LET completion == GenerateCompletion(response) IN
          /\ completion.ok => Len(completion.value) > 0
          /\ (response.ok /\ (Len(response.choices) = 0
                              \/ Len(response.choices[1].message.content) = 0))
                => completion = [ok |-> TRUE, value |-> NoResponseGenerated]
    /\ WorkflowReturned =>
          /\ Len(result.answer) > 0
          /\ result.answer = state.finalAnswer
          /\ lastCall.service = "generateCompletion"
          /\ ~lastCall.outcome.ok => result.answer = FallbackAnswer
          /\ lastCall.outcome.ok => result.answer = lastCall.outcome.value

\* a run returned 'No response generated' as its answer
C37_Witness ==
    /\ WorkflowReturned
    /\ result.answer = NoResponseGenerated
    /\ lastCall.outcome.ok


\* C40: when a run of the workflow has returned, the messages of its final
\* state are the user's query, once, followed by one assistant message, on
\* the path through retrieval and on the path of direct generation
C40_MessageHistory ==
    WorkflowReturned =>
        /\ Len(state.messages) = 2
        /\ state.messages[1] = HumanMessage(userQuery)
        /\ state.messages[2].type = "ai"
        /\ Cardinality({k \in 1..Len(state.messages) :
                           state.messages[k] = HumanMessage(userQuery)}) = 1


(***************************************************************************)
(* Properties of the React agent's result                                  *)
(***************************************************************************)
ReactReturned == type = REACT /\ phase = "returned"

C34_WitnessNoTool ==
    /\ ReactReturned
    /\ Len(ToolMessages) = 0
    /\ Len(calls) = 0


C36_WitnessLateResult ==
    /\ req.route = COMPARE /\ handler = "done"
    /\ RunOf(REACT).phase = "threw"
    /\ RunOf(WORKFLOW).phase = "returned"
    /\ responses[1].status = 500
    /\ RunOf(WORKFLOW).result.metadata.timestamp > responses[1].json.timestamp


(***************************************************************************)
(* Two executions of the one workflow agent                                *)
(***************************************************************************)
\* execute is called on the agent again while an execution of it is pending
\* or over, as by a second request for a route of the same agent: the new
\* execution runs up to the await of this.agent.invoke
ExecuteAgain ==
    /\ handler = "idle" /\ parked = NoRun
    /\ phase \in {"running", "returned"}
    /\ \E query \in Queries :
          parked' = StartedRun(IdleRun(type), query, NoOptions, now, uuidCounter)
    /\ uuidCounter' = uuidCounter + UuidsAtStart(type)
    /\ UNCHANGED << runVars, now, req, handler, receivedAt, responses,
                    marketingVars, evaluatorVars, healthVars, chatVars >>

\* the services behind the two executions: an index that holds one document,
\* and a chat completion that answers RETRIEVE or GENERATE to the analysis,
\* yes or no to the grade and one text to a generation prompt
ConcurrentSearchOutcomes ==
    {SearchDocuments(r) : r \in
        {x \in SearchResponses(SearchTop) :
            x.ok => \A k \in 1..Len(x.results) : x.results[k].document = Document(1)}}
ConcurrentAnswers(prompt) ==
    CASE prompt = "analysis" -> {RETRIEVE, << "G", "E", "N", "E", "R", "A", "T", "E" >>}
      [] prompt = "grade" -> {<< " ", "Y", "e", "s", "\n" >>, << "n", "o" >>}
      [] OTHER -> {<< "n", "o" >>}
ConcurrentServices ==
    \/ lastCall.service = "none"
    \/ /\ lastCall.service = "searchDocuments"
       /\ lastCall.outcome \in ConcurrentSearchOutcomes
    \/ /\ lastCall.service = "generateCompletion"
       /\ lastCall.outcome.ok
       /\ lastCall.outcome.value
             \in ConcurrentAnswers(lastCall.request.messages[1].content.prompt)

\* the first execution is started without options
ConcurrentNext ==
    \/ Execute /\ state'.maxRetries = InitialState(0, EmptyText, NoOptions).maxRetries
    \/ ExecuteAgain
    \/ Switch
    \/ Agent /\ ConcurrentServices'
    \/ Retrieve /\ ConcurrentServices'
    \/ GradeDocumentsStep /\ ConcurrentServices'
    \/ Generate /\ ConcurrentServices'
    \/ WorkflowReturn

ConcurrentSpec == RouteInit /\ [][ConcurrentNext]_vars

\* the paths of the workflow, as the names of their steps
WorkflowPaths ==
    { << "agent_analysis", "generate" >>,
      << "agent_analysis", "retrieval", "grade_documents", "generate" >> }

\* what an execution holds is its own: its state carries its query, the
\* steps are those of the stages it ran, once each and in the order of a
\* path, the documents are those of its own search, the history holds its
\* own query, and its result is made of its own state
OwnRun(run) ==
    /\ run.type = WORKFLOW
    /\ run.state.userQuery = run.userQuery
    /\ run.state.searchQuery \in {EmptyText, run.userQuery}
    /\ Len(run.state.executionSteps) = run.superstep
    /\ \E path \in WorkflowPaths : IsPrefix(StepNames(run.state.executionSteps), path)
    /\ \A k \in 1..Len(run.state.executionSteps) :
          LET step == run.state.executionSteps[k] IN
          /\ step.timestamp >= run.startTime
          /\ step.step = "agent_analysis" => step.details = [userQuery |-> run.userQuery]
          /\ step.step = "retrieval" => step.details.searchQuery = run.userQuery
    /\ Len(run.state.retrievedDocs) > 0 =>
          \E k \in 1..Len(run.calls) :
             run.calls[k].service = "searchDocuments" /\ run.calls[k].ok
    /\ \A k \in 1..Len(run.state.messages) :
          run.state.messages[k].type = "human" =>
             run.state.messages[k].content = run.userQuery
    /\ run.phase = "returned" =>
          run.result = WorkflowResult(run.state, run.userQuery, run.startTime,
                                      run.result.metadata.timestamp, WORKFLOW)

\* a stage of the execution that runs, or its return, as the execution does
\* it alone: the state becomes the state with the update the node gives for
\* the state and the outcome of its call, and the result is the result of
\* the state
StepAlone ==
    \/ \E node \in activeNodes : \E outcome \in OutcomesOf(node, state) :
          /\ state' = ApplyUpdate(state, NodeUpdate(node, state, now, outcome))
          /\ activeNodes' = Successors(node, state')
          /\ phase' = "running" /\ result' = result
    \/ /\ activeNodes = {}
       /\ phase' = "returned"
       /\ state' = state
       /\ result' = WorkflowResult(state, userQuery, startTime, now, type)

\* C35: executions of the one workflow agent that run interleaved are
\* isolated: a step of one execution leaves the other as it is, and is the
\* step the execution takes alone with the same outcome of its call; the
\* change from one execution to the other changes neither; so what each
\* holds and returns (steps, documents, decisions, answer, session
\* identifier) is its own, and the executions have different session
\* identifiers
C35_ExecutionsIsolated ==
    /\ [](\A run \in Executions : run.phase \in {"running", "returned"} => OwnRun(run))
    /\ []((parked.phase # "none" /\ phase # "idle") =>
             /\ state.sessionId # parked.state.sessionId
             /\ SessionIdsOf(ThisRun) \cap SessionIdsOf(parked) = {})
    /\ [][\/ parked' = parked /\ phase = "running" /\ StepAlone
          \/ parked' = parked /\ phase = "idle"
          \/ parked' = ThisRun /\ ThisRun' = parked
          \/ parked = NoRun /\ ThisRun' = ThisRun /\ OwnRun(parked')]_vars

\* two executions with different queries overlapped and returned: the first
\* found documents and accepted them, the second, started after a call of
\* the first and over before the first, found none
C35_Witness ==
    /\ parked.phase = "returned" /\ phase = "returned"
    /\ userQuery # parked.userQuery
    /\ \E first, second \in Executions :
          /\ first.startTime < second.startTime
          /\ second.result.metadata.timestamp < first.result.metadata.timestamp
          /\ first.state.ragAccepted = JsBool(TRUE)
          /\ Len(first.state.retrievedDocs) > 0
          /\ Len(second.state.retrievedDocs) = 0
          /\ Len(second.state.executionSteps) = 4


(***************************************************************************)
(* The health check (RAGServices.healthCheck and GET /api/health)          *)
(***************************************************************************)
\* the requests of the two probes
CompletionProbeRequest ==
    [messages |-> << [role |-> "user", content |-> << "H", "e", "l", "l", "o" >>] >>,
     options |-> [maxTokens |-> ProbeMaxTokens]]
SearchProbeRequest ==
    [query |-> << "t", "e", "s", "t" >>, options |-> [top |-> ProbeTop]]

\* config.server.environment when NODE_ENV is not set
Environment == "development"

\* the answer of the health route to the status healthCheck resolved with
HealthResponse(healthStatus, clock) ==
    [status |-> IF healthStatus.overall THEN 200 ELSE 503,
     json |-> [status |-> IF healthStatus.overall THEN "healthy" ELSE "unhealthy",
               services |-> healthStatus,
               environment |-> Environment,
               timestamp |-> clock,
               uptime |-> clock]]

\* GET /api/health arrives: healthCheck makes its health object and awaits
\* the completion probe
HealthReceive ==
    /\ probe = "idle"
    /\ Len(healthResponses) < MaxHealthChecks
    /\ health' = [openai |-> FALSE, search |-> FALSE, overall |-> FALSE]
    /\ healthCalls' = << >>
    /\ probe' = "openai"
    /\ UNCHANGED << healthResponses, agentVars, routeVars, marketingVars, evaluatorVars,
                    chatVars >>

\* the completion probe without its catch: a failure leaves healthCheck
CompletionProbe_NoCatch ==
    /\ probe = "openai"
    /\ \E response \in CompletionResponses :
         LET completion == GenerateCompletion(response) IN
         /\ healthCalls' = Append(healthCalls,
               [service |-> "generateCompletion", request |-> CompletionProbeRequest,
                outcome |-> completion])
         /\ health' = IF completion.ok THEN [health EXCEPT !.openai = TRUE] ELSE health
         /\ probe' = IF completion.ok THEN "search" ELSE "threw"
    /\ UNCHANGED << healthResponses, agentVars, routeVars, marketingVars, evaluatorVars,
                    chatVars >>

\* the completion probe settles: a failure is caught, and the search probe
\* is awaited next
CompletionProbe ==
    /\ probe = "openai"
    /\ \E response \in CompletionResponses :
         LET completion == GenerateCompletion(response) IN
         /\ healthCalls' = Append(healthCalls,
               [service |-> "generateCompletion", request |-> CompletionProbeRequest,
                outcome |-> completion])
         /\ health' = IF completion.ok THEN [health EXCEPT !.openai = TRUE] ELSE health
    /\ probe' = "search"
    /\ UNCHANGED << healthResponses, agentVars, routeVars, marketingVars, evaluatorVars,
                    chatVars >>

\* the search probe settles: a failure is caught, overall is set and
\* healthCheck returns
SearchProbe ==
    /\ probe = "search"
    /\ \E response \in SearchResponses(ProbeTop) :
         LET search == SearchDocuments(response)
             probed == IF search.ok THEN [health EXCEPT !.search = TRUE] ELSE health
         IN  /\ healthCalls' = Append(healthCalls,
                   [service |-> "searchDocuments", request |-> SearchProbeRequest,
                    outcome |-> search])
             /\ health' = [probed EXCEPT !.overall = probed.openai /\ probed.search]
    /\ probe' = "returned"
    /\ UNCHANGED << healthResponses, agentVars, routeVars, marketingVars, evaluatorVars,
                    chatVars >>

\* the route after its await: the response, or next(error) and handleError
HealthRespond ==
    /\ probe \in {"returned", "threw"}
    /\ healthResponses' = Append(healthResponses,
          IF probe = "returned"
          THEN HealthResponse(health, now)
          ELSE HandleError("Completion generation failed", now))
    /\ probe' = "idle"
    /\ UNCHANGED << health, healthCalls, agentVars, routeVars, marketingVars, evaluatorVars,
                    chatVars >>

HealthNext ==
    \/ HealthReceive
    \/ CompletionProbe
    \/ SearchProbe
    \/ HealthRespond

HealthSpec == Init /\ [][HealthNext]_vars

\* the probe of the given service in the health check that is running or
\* was answered last
ProbeOf(service) == {k \in 1..Len(healthCalls) : healthCalls[k].service = service}
ProbeSucceeded(service) == \E k \in ProbeOf(service) : healthCalls[k].outcome.ok

\* C39: healthCheck never throws and resolves with overall true exactly when
\* the completion probe and the search probe both succeeded, each flag
\* telling whether its probe succeeded; the search probe is made whether or
\* not the completion probe failed; and the route answers 200 and 'healthy'
\* when overall is true, 503 and 'unhealthy' otherwise
C39_HealthCheck ==
    /\ [](probe # "threw")
    /\ [](probe = "returned" =>
            /\ [k \in 1..Len(healthCalls) |-> healthCalls[k].service]
                  = << "generateCompletion", "searchDocuments" >>
            /\ health.openai <=> ProbeSucceeded("generateCompletion")
            /\ health.search <=> ProbeSucceeded("searchDocuments")
            /\ health.overall <=> (ProbeSucceeded("generateCompletion")
                                   /\ ProbeSucceeded("searchDocuments")))
    /\ [][probe = "openai" => probe' = "search"]_vars
    /\ [][probe = "returned" =>
            LET sent == healthResponses'[Len(healthResponses')] IN
            /\ Len(healthResponses') = Len(healthResponses) + 1
            /\ sent.json.services = health
            /\ IF health.overall
               THEN sent.status = 200 /\ sent.json.status = "healthy"
               ELSE sent.status = 503 /\ sent.json.status = "unhealthy"]_vars
    /\ [](\A k \in 1..Len(healthResponses) :
            /\ healthResponses[k].status \in {200, 503}
            /\ healthResponses[k].status = 200
                  <=> healthResponses[k].json.services.overall
            /\ healthResponses[k].json.status
                  = (IF healthResponses[k].status = 200 THEN "healthy" ELSE "unhealthy"))

\* a health check whose completion probe failed and whose search probe
\* succeeded was answered 503
C39_Witness ==
    /\ probe = "idle"
    /\ Len(healthCalls) = 2
    /\ ~healthCalls[1].outcome.ok
    /\ healthCalls[2].outcome.ok
    /\ healthResponses[Len(healthResponses)].status = 503
    /\ healthResponses[Len(healthResponses)].json.services
          = [openai |-> FALSE, search |-> TRUE, overall |-> FALSE]

\* a health check whose probes both succeeded was answered 200
C39_WitnessHealthy ==
    /\ probe = "idle"
    /\ Len(healthCalls) = 2
    /\ healthResponses[Len(healthResponses)].status = 200
    /\ healthResponses[Len(healthResponses)].json.status = "healthy"


(***************************************************************************)
(* The chat page (AgenticRAGChat)                                          *)
(***************************************************************************)
\* what the user leaves in the message textarea
MessageInputs == { << >>, << " " >>, << " ", "h", "i", " " >> }

ThinkingText == << "T", "h", "i", "n", "k", "i", "n", "g" >>
SorryText == << "S", "o", "r", "r", "y" >>
AnswerText == << "o", "k" >>

\* how fetch settles: it is rejected, or resolved with a response of a status
FetchOutcomes ==
    {[how |-> "rejected"]} \cup {[how |-> "resolved", status |-> s] : s \in {200, 400, 500}}
\* response.ok
ResponseOk(outcome) == outcome.how = "resolved" /\ outcome.status \in 200..299

\* how response.json() settles: it is rejected, or resolved with a result or
\* with an object without an answer
JsonOutcomes ==
    { [how |-> "rejected"],
      [how |-> "resolved", body |-> [answer |-> AnswerText]],
      [how |-> "resolved", body |-> [error |-> "Request failed"]] }

\* addMessage: the children of chatMessages with the new message element
AddMessage(children, id, content, sender, isError) ==
    Append(children, [id |-> id, type |-> sender, content |-> content,
                      isError |-> isError, loading |-> FALSE])

\* addLoadingMessage
AddLoadingMessage(children, id) ==
    Append(children, [id |-> id, type |-> "assistant", content |-> ThinkingText,
                      isError |-> FALSE, loading |-> TRUE])

\* removeMessage: the element leaves its parent if it has one
RemoveMessage(children, id) == SelectSeq(children, LAMBDA m : m.id # id)

\* setLoading
SetLoading(loading) ==
    /\ isLoading' = loading
    /\ sendButton' = [disabled |-> loading]
    /\ statusIndicator' = IF loading THEN "Processing..." ELSE "Ready"

\* the textarea gets another value, typed or set by an example button
InputMessage ==
    /\ \E value \in MessageInputs \ {messageInput} : messageInput' = value
    /\ UNCHANGED << isLoading, sendButton, statusIndicator, chatMessages, inFlight,
                    sendCalls, elements >>
    /\ UNCHANGED << agentVars, routeVars, marketingVars, evaluatorVars, healthVars >>

\* sendMessage without the test of isLoading
SendMessage_WhileLoading ==
    /\ Len(sendCalls) < MaxSends
    /\ LET message == Trim(messageInput) IN
       IF Len(message) = 0
       THEN /\ sendCalls' = Append(sendCalls, [message |-> message, isLoading |-> isLoading,
                                               sent |-> FALSE])
            /\ UNCHANGED << messageInput, isLoading, sendButton, statusIndicator,
                            chatMessages, inFlight, elements >>
       ELSE /\ sendCalls' = Append(sendCalls, [message |-> message, isLoading |-> isLoading,
                                               sent |-> TRUE])
            /\ messageInput' = << >>
            /\ chatMessages' =
                  AddLoadingMessage(AddMessage(chatMessages, elements + 1, message,
                                               "user", FALSE),
                                    elements + 2)
            /\ elements' = elements + 2
            /\ SetLoading(TRUE)
            /\ inFlight' = inFlight \cup
                  {[loadingMessage |-> elements + 2, awaits |-> "fetch",
                    body |-> [query |-> message]]}
    /\ UNCHANGED << agentVars, routeVars, marketingVars, evaluatorVars, healthVars >>

\* sendMessage, called by Enter or by the send button, up to its return or
\* to the await of callAgent
SendMessage ==
    /\ Len(sendCalls) < MaxSends
    /\ LET message == Trim(messageInput) IN
       IF Len(message) = 0 \/ isLoading
       THEN /\ sendCalls' = Append(sendCalls, [message |-> message, isLoading |-> isLoading,
                                               sent |-> FALSE])
            /\ UNCHANGED << messageInput, isLoading, sendButton, statusIndicator,
                            chatMessages, inFlight, elements >>
       ELSE /\ sendCalls' = Append(sendCalls, [message |-> message, isLoading |-> isLoading,
                                               sent |-> TRUE])
            /\ messageInput' = << >>
            /\ chatMessages' =
                  AddLoadingMessage(AddMessage(chatMessages, elements + 1, message,
                                               "user", FALSE),
                                    elements + 2)
            /\ elements' = elements + 2
            /\ SetLoading(TRUE)
            /\ inFlight' = inFlight \cup
                  {[loadingMessage |-> elements + 2, awaits |-> "fetch",
                    body |-> [query |-> message]]}
    /\ UNCHANGED << agentVars, routeVars, marketingVars, evaluatorVars, healthVars >>

\* the catch and the finally of sendMessage
RequestFailed(call) ==
    /\ chatMessages' = AddMessage(RemoveMessage(chatMessages, call.loadingMessage),
                                  elements + 1, SorryText, "assistant", TRUE)
    /\ elements' = elements + 1
    /\ SetLoading(FALSE)
    /\ inFlight' = inFlight \ {call}

\* the rest of the try and the finally of sendMessage; addMessage throws on
\* an answer that is undefined, after the loading message was removed
RequestAnswered(call, response) ==
    IF "answer" \in DOMAIN response
    THEN /\ chatMessages' = AddMessage(RemoveMessage(chatMessages, call.loadingMessage),
                                       elements + 1, response.answer, "assistant", FALSE)
         /\ elements' = elements + 1
         /\ SetLoading(FALSE)
         /\ inFlight' = inFlight \ {call}
    ELSE RequestFailed(call)

\* the fetch of callAgent settles
FetchSettles ==
    /\ \E call \in inFlight : \E outcome \in FetchOutcomes :
         /\ call.awaits = "fetch"
         /\ IF ResponseOk(outcome)
            THEN /\ inFlight' = (inFlight \ {call}) \cup {[call EXCEPT !.awaits = "json"]}
                 /\ UNCHANGED << isLoading, sendButton, statusIndicator, chatMessages,
                                 elements >>
            ELSE RequestFailed(call)
    /\ UNCHANGED << messageInput, sendCalls >>
    /\ UNCHANGED << agentVars, routeVars, marketingVars, evaluatorVars, healthVars >>

\* response.json() of callAgent settles
JsonSettles ==
    /\ \E call \in inFlight : \E outcome \in JsonOutcomes :
         /\ call.awaits = "json"
         /\ IF outcome.how = "resolved"
            THEN RequestAnswered(call, outcome.body)
            ELSE RequestFailed(call)
    /\ UNCHANGED << messageInput, sendCalls >>
    /\ UNCHANGED << agentVars, routeVars, marketingVars, evaluatorVars, healthVars >>

ChatNext ==
    \/ InputMessage
    \/ SendMessage
    \/ FetchSettles
    \/ JsonSettles

ChatSpec == Init /\ [][ChatNext]_vars

\* the loading placeholders among the messages shown
LoadingMessages == {k \in 1..Len(chatMessages) : chatMessages[k].loading}

\* C38: the chat page keeps at most one request in flight: a call of
\* sendMessage while isLoading is true or with an empty message changes
\* nothing; isLoading is true exactly while a request is in flight, with the
\* send button disabled and one loading placeholder shown last; and when a
\* request settles, with an answer or with a failure, isLoading is false,
\* the placeholder is gone and an assistant message has taken its place
C38_OneRequestInFlight ==
    /\ [](/\ Cardinality(inFlight) <= 1
          /\ isLoading <=> inFlight # {}
          /\ sendButton.disabled = isLoading
          /\ statusIndicator = (IF isLoading THEN "Processing..." ELSE "Ready")
          /\ LoadingMessages = (IF isLoading THEN {Len(chatMessages)} ELSE {})
          /\ \A call \in inFlight :
                chatMessages[Len(chatMessages)].id = call.loadingMessage)
    /\ [](\A k \in 1..Len(sendCalls) :
             sendCalls[k].sent <=> (~sendCalls[k].isLoading /\ Len(sendCalls[k].message) > 0))
    /\ [][(/\ Len(sendCalls') = Len(sendCalls) + 1
           /\ isLoading \/ Len(Trim(messageInput)) = 0)
             => UNCHANGED << messageInput, isLoading, sendButton, statusIndicator,
                             chatMessages, inFlight, elements >>]_vars
    /\ [][(inFlight # {} /\ inFlight' = {}) =>
             /\ ~isLoading'
             /\ Len(chatMessages') = Len(chatMessages)
             /\ SubSeq(chatMessages', 1, Len(chatMessages) - 1)
                   = SubSeq(chatMessages, 1, Len(chatMessages) - 1)
             /\ chatMessages'[Len(chatMessages')].type = "assistant"
             /\ ~chatMessages'[Len(chatMessages')].loading]_vars

\* sendMessage was called with a message while a request was in flight and
\* did nothing; that request failed, and the next one was answered
C38_Witness ==
    /\ ~isLoading
    /\ \E k \in 1..Len(sendCalls) :
          sendCalls[k].isLoading /\ Len(sendCalls[k].message) > 0 /\ ~sendCalls[k].sent
    /\ Len(chatMessages) = 4
    /\ chatMessages[2].isError
    /\ chatMessages[4].content = AnswerText
    /\ [k \in 1..4 |-> chatMessages[k].type] = << "user", "assistant", "user", "assistant" >>

====
